---- MODULE Spec2Model ----
(***************************************************************************)
(* Stock_Sense_AI: the temporal feature-fusion pipeline                    *)
(* (features/feature_engineering.py), the search-interest source           *)
(* (data_scrapers/trends_scraper2.py), the chronological train/test split  *)
(* the ensemble predictor (model/predictor.py) and the daily aggregators    *)
(* (data_scrapers/news_scraper*.py, reddit_scraper*.py).  Specifications:   *)
(* Spec runs the fusion, SpecSplit splits a fused table, SpecPredictor     *)
(* calls the methods of a StockPredictor in any order, SpecStorage saves   *)
(* and loads predictors while the model file may be replaced, SpecMetrics  *)
(* applies _compute_metrics to two series, SpecAggregate hands scraped     *)
(* events to an aggregator, SpecTables runs the fusion on tables whose     *)
(* dates carry a time of day and a zone and may repeat, SpecDashboard      *)
(* runs the dashboard's make_prediction.                                   *)
(*                                                                         *)
(* Encoding of values.  A numeric cell is a record [n, d, r] standing for  *)
(* the real number (n/d)^(1/r): r = 1 for a rational, r = 2 for a square   *)
(* root that is not rational (a standard deviation, an RMSE).  d = 0 is    *)
(* NaN.  Cells are kept in lowest terms, so equal numbers are equal        *)
(* records.  A column name is the sequence of its underscore-separated     *)
(* words (<<"avg","sentiment">> is avg_sentiment); every pattern the code  *)
(* searches column names for is a whole word of the names that occur.      *)
(***************************************************************************)
EXTENDS Integers, Sequences, FiniteSets, TLC

VARIABLES
    pc,               \* position of the run
    stock_df,         \* price table handed to combine_all_features
    news_df,          \* daily news table (or None)
    reddit_df,        \* daily reddit table (or None)
    trends_raw,       \* what pytrends.interest_over_time() returned
    trends_df,        \* what get_search_trends returned
    df,               \* the fused table returned by combine_all_features
    feature_columns,  \* FeatureEngineer.feature_columns
    test_fraction,    \* the test fraction as the caller wrote it, a rational
    test_size,        \* the float handed to prepare_train_test_split
    split,            \* what prepare_train_test_split returned
    predictor,        \* the fields of the StockPredictor instance
    disk,             \* the file at config.MODEL_PATH
    result,           \* the outcome of the last call on the predictor
    actual,           \* the series handed to _compute_metrics as y_true
    predicted,        \* the series handed to _compute_metrics as y_pred
    metrics,          \* what _compute_metrics returned
    scraped,          \* the frames of events that the scrapers returned
    aggregated        \* the aggregator that was called and what it returned

fusionVars == <<stock_df, news_df, reddit_df, trends_raw, trends_df, df, feature_columns>>
splitVars == <<test_fraction, test_size, split>>
predictorVars == <<predictor, disk, result>>
metricsVars == <<actual, predicted, metrics>>
aggVars == <<scraped, aggregated>>

-----------------------------------------------------------------------------
(* Bounds of the model *)

MaxDate == 5          \* calendar days 1..MaxDate
MaxSignalRows == 2    \* rows of a daily signal table
MaxSplitRows == 10    \* rows of a fused table that is split
MaxMetricRows == 3    \* rows of a series handed to _compute_metrics
MaxMetricValue == 3   \* actual values 0..MaxMetricValue
MaxEvents == 3        \* events (headlines, posts) that the scrapers return
MaxStampDay == 3      \* calendar days 1..MaxStampDay of the tables of SpecTables
MaxDashboardDay == 2  \* calendar days 1..MaxDashboardDay of the dashboard's price table

-----------------------------------------------------------------------------
(* Numbers *)

Abs(x) == IF x < 0 THEN -x ELSE x

RECURSIVE GCD(_, _)
GCD(a, b) == IF b = 0 THEN a ELSE GCD(b, a % b)

NaN == [n |-> 0, d |-> 0, r |-> 1]

Frac(n, d) ==
    LET g == GCD(Abs(n), Abs(d))
        s == IF d < 0 THEN -1 ELSE 1
    IN  [n |-> (s * n) \div g, d |-> (s * d) \div g, r |-> 1]

Num(n) == [n |-> n, d |-> 1, r |-> 1]

isna(v) == v = NaN

FAdd(a, b) == Frac(a.n * b.d + b.n * a.d, a.d * b.d)
FSub(a, b) == Frac(a.n * b.d - b.n * a.d, a.d * b.d)
FMul(a, b) == Frac(a.n * b.n, a.d * b.d)
\* float division: x / 0 is inf or NaN, both kept as the non-finite cell
FDiv(a, b) == IF b.n = 0 THEN NaN ELSE Frac(a.n * b.d, a.d * b.n)
FLess(a, b) == a.n * b.d < b.n * a.d

IsSquare(k) == \E i \in 0..k : i * i = k
ISqrt(k) == CHOOSE i \in 0..k : i * i = k

\* the square root of a non-negative rational cell
Sqrt(v) ==
    IF isna(v) THEN NaN
    ELSE IF IsSquare(v.n) /\ IsSquare(v.d) THEN Frac(ISqrt(v.n), ISqrt(v.d))
    ELSE [n |-> v.n, d |-> v.d, r |-> 2]

RECURSIVE SumCells(_)
SumCells(s) == IF s = <<>> THEN Num(0) ELSE FAdd(Head(s), SumCells(Tail(s)))

Range(s) == {s[i] : i \in DOMAIN s}

\* the sequence s, as a tuple
Seq0(s) == s \o <<>>

RECURSIVE Concat(_)
Concat(ss) == IF ss = <<>> THEN <<>> ELSE Head(ss) \o Concat(Tail(ss))

RECURSIVE SortedSeq(_)
SortedSeq(S) ==
    IF S = {} THEN <<>>
    ELSE LET m == CHOOSE x \in S : \A y \in S : x <= y
         IN  <<m>> \o SortedSeq(S \ {m})

-----------------------------------------------------------------------------
(* Dates.  A pandas Timestamp is [day, tod, tz]; a python date is [day]. *)

Timestamp(day) == [day |-> day, tod |-> 0, tz |-> "naive"]
PyDate(day) == [day |-> day]

\* pd.to_datetime: a python date becomes the Timestamp of its midnight
to_datetime(v) ==
    IF "tod" \in DOMAIN v THEN v ELSE [day |-> v.day, tod |-> 0, tz |-> "naive"]

\* Series.dt.tz_localize(None): the zone is dropped, the wall clock is kept
tz_localize_None(ts) == [ts EXCEPT !.tz = "naive"]

-----------------------------------------------------------------------------
(* Column names *)

Date == <<"Date">>
close == <<"close">>
target == <<"target">>
search_volume == <<"search", "volume">>
search_interest == <<"search", "interest">>
avg_sentiment == <<"avg", "sentiment">>
sentiment_std == <<"sentiment", "std">>
positive_ratio == <<"positive", "ratio">>
negative_ratio == <<"negative", "ratio">>
news_volume == <<"news", "volume">>
reddit_avg_sentiment == <<"reddit", "avg", "sentiment">>
reddit_weighted_sentiment == <<"reddit", "weighted", "sentiment">>
reddit_volume == <<"reddit", "volume">>
reddit_engagement == <<"reddit", "engagement">>
reddit_positive_ratio == <<"reddit", "positive", "ratio">>

NewsColumns == <<avg_sentiment, sentiment_std, positive_ratio, negative_ratio, news_volume>>
RedditColumns == <<reddit_avg_sentiment, reddit_weighted_sentiment, reddit_volume,
                   reddit_engagement, reddit_positive_ratio>>

\* `x in col` for a pattern x that is a whole word
Contains(col, x) == \E i \in DOMAIN col : col[i] = x

-----------------------------------------------------------------------------
(* DataFrames: [columns |-> sequence of names, rows |-> sequence of rows],  *)
(* a row being a function from the column names to values.                  *)

None == [isNone |-> TRUE]
EmptyDataFrame == [columns |-> <<>>, rows |-> <<>>]      \* pd.DataFrame()

\* a python dict, as the summary aggregators return one (see Dict below)
IsDict(v) == "items" \in DOMAIN v

empty(t) == t.rows = <<>> \/ t.columns = <<>>

Column(t, c) == Seq0([i \in 1..Len(t.rows) |-> t.rows[i][c]])

\* df[c] = vals
SetColumn(t, c, vals) ==
    [columns |-> IF c \in Range(t.columns) THEN t.columns ELSE Append(t.columns, c),
     rows |-> Seq0([i \in 1..Len(t.rows) |-> (c :> vals[i]) @@ t.rows[i]])]

\* df[c] = v for a scalar v
SetScalar(t, c, v) == SetColumn(t, c, [i \in 1..Len(t.rows) |-> v])

\* the names of cs that are not yet columns of t, in their order
NewColumns(t, cs) == SelectSeq(cs, LAMBDA name : name \notin Range(t.columns))

\* df[cs] = v for a scalar v
SetScalars(t, cs, v) ==
    [columns |-> t.columns \o NewColumns(t, cs),
     rows |-> Seq0([i \in 1..Len(t.rows) |-> [c \in Range(cs) |-> v] @@ t.rows[i]])]

\* t[cols]
Select(t, cols) ==
    [columns |-> cols,
     rows |-> [i \in 1..Len(t.rows) |-> [c \in Range(cols) |-> t.rows[i][c]]]]

\* df['Date'] = pd.to_datetime(df['Date']).dt.tz_localize(None)
NormalizeDate(t) ==
    SetColumn(t, Date, [i \in 1..Len(t.rows) |-> tz_localize_None(to_datetime(t.rows[i][Date]))])

\* left.merge(right, on='Date', how='left'): the left rows in their order, each
\* once per right row with its Date (in the right table's order), or once
\* with NaN in the right table's columns when no right row has its Date
merge(left, right) ==
    LET rcols == SelectSeq(right.columns, LAMBDA c : c # Date)
        Joined(l) ==
            LET m == SelectSeq(right.rows, LAMBDA r : r[Date] = l[Date])
            IN  IF m = <<>>
                THEN << l @@ [c \in Range(rcols) |-> NaN] >>
                ELSE [i \in 1..Len(m) |-> l @@ [c \in Range(rcols) |-> m[i][c]]]
    IN  [columns |-> left.columns \o rcols,
         rows |-> Concat([i \in 1..Len(left.rows) |-> Joined(left.rows[i])])]

\* Series.fillna(0)
fillna0(s) == [i \in 1..Len(s) |-> IF isna(s[i]) THEN Num(0) ELSE s[i]]

\* Series.ffill(): a NaN takes the last value before it that is not NaN
RECURSIVE ffill(_)
ffill(s) ==
    IF Len(s) <= 1 THEN s
    ELSE LET front == ffill(SubSeq(s, 1, Len(s) - 1))
             last == s[Len(s)]
         IN  Append(front, IF isna(last) THEN front[Len(front)] ELSE last)

\* Series.shift(k): row i takes the value of row i - k, NaN where there is none
shift(s, k) ==
    [i \in 1..Len(s) |-> IF i - k \in 1..Len(s) THEN s[i - k] ELSE NaN]

\* DataFrame.fillna(0); a Date is never missing
DataFrame_fillna0(t) ==
    [columns |-> t.columns,
     rows |-> [i \in 1..Len(t.rows) |->
                 [c \in DOMAIN t.rows[i] |->
                    IF c # Date /\ isna(t.rows[i][c]) THEN Num(0) ELSE t.rows[i][c]]]]

\* df[cs] = df[cs].fillna(0)
FillColumns(t, cs) ==
    [columns |-> t.columns,
     rows |-> Seq0([i \in 1..Len(t.rows) |->
                 [c \in DOMAIN t.rows[i] |->
                    IF c \in Range(cs) /\ isna(t.rows[i][c]) THEN Num(0) ELSE t.rows[i][c]]])]

\* df.dropna(subset=[c])
dropna(t, c) ==
    [columns |-> t.columns, rows |-> SelectSeq(t.rows, LAMBDA r : ~isna(r[c]))]

\* Series.rolling(window).mean(): NaN until `window` values are in the window
rolling_mean(s, window) ==
    [i \in 1..Len(s) |->
        IF i < window \/ \E j \in (i - window + 1)..i : isna(s[j]) THEN NaN
        ELSE FDiv(SumCells(SubSeq(s, i - window + 1, i)), Num(window))]

\* Series.rolling(window).std(): the sample standard deviation (ddof = 1)
rolling_std(s, window) ==
    [i \in 1..Len(s) |->
        IF i < window \/ \E j \in (i - window + 1)..i : isna(s[j]) THEN NaN
        ELSE LET w == SubSeq(s, i - window + 1, i)
                 mean == FDiv(SumCells(w), Num(window))
                 sq == [j \in 1..window |-> FMul(FSub(w[j], mean), FSub(w[j], mean))]
             IN  Sqrt(FDiv(SumCells(sq), Num(window - 1)))]

-----------------------------------------------------------------------------
(* data_scrapers/trends_scraper2.py *)

Unavailable == [raises |-> TRUE]         \* the request to Google Trends failed

HasRows(t) == t # None /\ t # Unavailable /\ ~empty(t)

RECURSIVE MaxCell(_)
MaxCell(s) ==
    IF Len(s) = 1 THEN s[1]
    ELSE LET m == MaxCell(Tail(s)) IN IF FLess(s[1], m) THEN m ELSE s[1]

\* search_volume / max_vol if max_vol > 0 else 0
normalize_interest(vols) ==
    LET max_vol == MaxCell(vols)
    IN  IF FLess(Num(0), max_vol)
        THEN [i \in 1..Len(vols) |-> FDiv(vols[i], max_vol)]
        ELSE [i \in 1..Len(vols) |-> Num(0)]

\* TrendsScraper.get_search_trends, given what interest_over_time() returned
get_search_trends(raw) ==
    IF raw = Unavailable THEN EmptyDataFrame
    ELSE IF empty(raw) THEN EmptyDataFrame
    ELSE LET t == NormalizeDate(raw)
         IN  Select(SetColumn(t, search_interest, normalize_interest(Column(t, search_volume))),
                    <<Date, search_interest>>)

-----------------------------------------------------------------------------
(* features/feature_engineering.py *)

LagName(col, lag) == col \o <<"lag", ToString(lag)>>
RollingName(col, stat, window) == col \o <<"rolling", stat, ToString(window)>>

\* mutant: each lag is one day short, so lag_1 is the same-day value
create_lagged_features_OneShort(t, cols, lags) ==
    LET pairs == {<<c, k>> : c \in Range(cols), k \in Range(lags)}
        names == Concat([i \in 1..Len(cols) |->
                           [j \in 1..Len(lags) |-> LagName(cols[i], lags[j])]])
        shifted == [p \in pairs |-> shift(Column(t, p[1]), p[2] - 1)]
        Source(name) == CHOOSE p \in pairs : LagName(p[1], p[2]) = name
    IN  [columns |-> t.columns \o NewColumns(t, names),
         rows |-> Seq0([i \in 1..Len(t.rows) |->
                     [name \in Range(names) |-> shifted[Source(name)][i]] @@ t.rows[i]])]

\* mutant: every lag column holds the previous row's value, whatever its lag
create_lagged_features_AlwaysOne(t, cols, lags) ==
    LET pairs == {<<c, k>> : c \in Range(cols), k \in Range(lags)}
        names == Concat([i \in 1..Len(cols) |->
                           [j \in 1..Len(lags) |-> LagName(cols[i], lags[j])]])
        shifted == [p \in pairs |-> shift(Column(t, p[1]), 1)]
        Source(name) == CHOOSE p \in pairs : LagName(p[1], p[2]) = name
    IN  [columns |-> t.columns \o NewColumns(t, names),
         rows |-> Seq0([i \in 1..Len(t.rows) |->
                     [name \in Range(names) |-> shifted[Source(name)][i]] @@ t.rows[i]])]

\* create_lagged_features: for every column and every lag, in the order of
\* the two loops, the column <col>_lag_<lag> = df[col].shift(lag).  No
\* generated name is the name of a column that is lagged.
create_lagged_features(t, cols, lags) ==
    LET pairs == {<<c, k>> : c \in Range(cols), k \in Range(lags)}
        names == Concat([i \in 1..Len(cols) |->
                           [j \in 1..Len(lags) |-> LagName(cols[i], lags[j])]])
        shifted == [p \in pairs |-> shift(Column(t, p[1]), p[2])]
        Source(name) == CHOOSE p \in pairs : LagName(p[1], p[2]) = name
    IN  [columns |-> t.columns \o NewColumns(t, names),
         rows |-> Seq0([i \in 1..Len(t.rows) |->
                     [name \in Range(names) |-> shifted[Source(name)][i]] @@ t.rows[i]])]

\* create_rolling_features: for every window, <column>_rolling_mean_<window>
\* and <column>_rolling_std_<window>
create_rolling_features(t, column, windows) ==
    LET stats == <<"mean", "std">>
        pairs == {<<w, st>> : w \in Range(windows), st \in Range(stats)}
        names == Concat([i \in 1..Len(windows) |->
                           [j \in 1..Len(stats) |-> RollingName(column, stats[j], windows[i])]])
        rolled == [p \in pairs |->
                     IF p[2] = "mean" THEN rolling_mean(Column(t, column), p[1])
                     ELSE rolling_std(Column(t, column), p[1])]
        Source(name) == CHOOSE p \in pairs : RollingName(column, p[2], p[1]) = name
    IN  [columns |-> t.columns \o NewColumns(t, names),
         rows |-> Seq0([i \in 1..Len(t.rows) |->
                     [name \in Range(names) |-> rolled[Source(name)][i]] @@ t.rows[i]])]

SentimentPatterns == {"sentiment", "reddit", "news"}

\* the columns the code lags: those whose name contains one of the patterns
SentimentCols(t) ==
    SelectSeq(t.columns, LAMBDA name : \E pat \in SentimentPatterns : Contains(name, pat))

\* a signal table is merged only when it is given and has rows
Given(t) == t # None /\ ~empty(t)

\* mutant: the news columns are forward-filled like the search interest
MergeNews_ForwardFilled(t, news) ==
    IF Given(news)
    THEN LET m == merge(t, NormalizeDate(news))
         IN  [columns |-> m.columns,
              rows |-> Seq0([i \in 1..Len(m.rows) |->
                          [c \in DOMAIN m.rows[i] |->
                             IF c = Date THEN m.rows[i][c] ELSE ffill(Column(m, c))[i]]])]
    ELSE SetScalars(t, NewsColumns, Num(0))

\* lines 49-55: the news merge
MergeNews(t, news) ==
    IF Given(news) THEN merge(t, NormalizeDate(news)) ELSE SetScalars(t, NewsColumns, Num(0))

\* lines 57-64: the reddit merge
MergeReddit(t, reddit) ==
    IF Given(reddit) THEN merge(t, NormalizeDate(reddit)) ELSE SetScalars(t, RedditColumns, Num(0))

\* mutant: the search interest is zero-filled without the forward-fill
MergeTrends_ZeroFilled(t, trends) ==
    IF Given(trends)
    THEN LET m == merge(t, Select(NormalizeDate(trends), <<Date, search_interest>>))
         IN  SetColumn(m, search_interest, fillna0(Column(m, search_interest)))
    ELSE SetScalar(t, search_interest, Num(0))

\* lines 66-72: the search-interest merge, forward-filled and then zero-filled
MergeTrends(t, trends) ==
    IF Given(trends)
    THEN LET m == merge(t, Select(NormalizeDate(trends), <<Date, search_interest>>))
         IN  SetColumn(m, search_interest, fillna0(ffill(Column(m, search_interest))))
    ELSE SetScalar(t, search_interest, Num(0))

Lags == <<1, 2, 3>>
Windows == <<3, 7, 14>>

\* combine_all_features up to line 85: the table before the target is added
FeatureTable(stock, news, trends, reddit) ==
    LET merged == MergeTrends(MergeReddit(MergeNews(NormalizeDate(stock), news), reddit), trends)
        sentiment_cols == SentimentCols(merged)
        filled == FillColumns(merged, sentiment_cols)
        lagged == create_lagged_features(filled, sentiment_cols, Lags)
    IN  create_rolling_features(lagged, close, Windows)

\* mutant: the close is shifted the other way, to the previous day's
AddTarget_PreviousClose(t) ==
    DataFrame_fillna0(dropna(SetColumn(t, target, shift(Column(t, close), 1)), target))

\* lines 87-93: the target, the rows without one dropped, the gaps zero-filled
AddTarget(t) ==
    DataFrame_fillna0(dropna(SetColumn(t, target, shift(Column(t, close), -1)), target))

\* lines 96-100
FeatureColumns(t) == SelectSeq(t.columns, LAMBDA name : name \notin {Date, target})

\* FeatureEngineer.combine_all_features: a KeyError when the price table has
\* no Date column (line 47) or no close column (line 85), an AttributeError
\* when the news or the reddit argument is a dict, which has no `empty`
\* (lines 50, 58), else the fused table and the feature columns
combine_all_features(stock, news, trends, reddit) ==
    IF Date \notin Range(stock.columns)
    THEN [raised |-> "KeyError", df |-> EmptyDataFrame, feature_columns |-> <<>>]
    ELSE IF IsDict(news) \/ IsDict(reddit)
    THEN [raised |-> "AttributeError", df |-> EmptyDataFrame, feature_columns |-> <<>>]
    ELSE IF close \notin Range(stock.columns)
    THEN [raised |-> "KeyError", df |-> EmptyDataFrame, feature_columns |-> <<>>]
    ELSE LET fused == AddTarget(FeatureTable(stock, news, trends, reddit))
         IN  [raised |-> "", df |-> fused, feature_columns |-> FeatureColumns(fused)]

-----------------------------------------------------------------------------
(* Binary floating point.  A finite float is [sign, man, exp], the number   *)
(* sign * man * 2^exp, where man is a binary natural: its bits, the most    *)
(* significant first, <<>> for 0, without a trailing 0 bit, so that equal   *)
(* numbers are equal records.  Every operation is the exact result rounded  *)
(* to the nearest float of the precision, ties to the even mantissa.  The   *)
(* exponents met here are far from the ends of their range: neither         *)
(* overflow nor subnormal numbers are modelled, and -0.0 is 0.0.            *)

float64 == 53      \* significant bits of a Python float and of numpy.float64
float32 == 24      \* significant bits of numpy.float32

Min2(a, b) == IF a < b THEN a ELSE b
Max2(a, b) == IF a < b THEN b ELSE a

\* a binary natural without its leading 0 bits
Strip(b) ==
    LET ones == {i \in DOMAIN b : b[i] = 1}
    IN  IF ones = {} THEN <<>>
        ELSE SubSeq(b, CHOOSE i \in ones : \A j \in ones : i <= j, Len(b))

TrailingZeros(b) ==
    LET ones == {i \in DOMAIN b : b[i] = 1}
    IN  IF ones = {} THEN Len(b)
        ELSE Len(b) - (CHOOSE i \in ones : \A j \in ones : j <= i)

\* 2^k, for k <= 30
RECURSIVE Pow2(_)
Pow2(k) ==
    IF k = 0 THEN 1
    ELSE LET h == Pow2(k \div 2) IN h * h * (IF k % 2 = 1 THEN 2 ELSE 1)

\* 2^k modulo d
RECURSIVE Pow2Mod(_, _)
Pow2Mod(k, d) ==
    IF k = 0 THEN 1 % d
    ELSE LET h == Pow2Mod(k \div 2, d) IN (h * h * (IF k % 2 = 1 THEN 2 ELSE 1)) % d

\* the bits of a natural below 2^30, and the natural of at most 30 bits
BitsOf(n) ==
    LET L == CHOOSE l \in 0..30 : n < Pow2(l) /\ (l = 0 \/ Pow2(l - 1) <= n)
    IN  Seq0([i \in 1..L |-> (n \div Pow2(L - i)) % 2])

RECURSIVE NatOf(_)
NatOf(b) ==
    IF Len(b) = 0 THEN 0
    ELSE IF Len(b) = 1 THEN b[1]
    ELSE LET h == Len(b) \div 2
         IN  NatOf(SubSeq(b, 1, h)) * Pow2(Len(b) - h) + NatOf(SubSeq(b, h + 1, Len(b)))

PadLeft(b, n) == Seq0([i \in 1..n |-> IF i <= n - Len(b) THEN 0 ELSE b[i - (n - Len(b))]])
ShiftLeft(b, k) == b \o [i \in 1..k |-> 0]

\* a + b.  The carry into bit i comes from a less significant bit g where
\* both operands have 1, through bits where at least one has 1.
BitAdd(a, b) ==
    LET L == Max2(Len(a), Len(b))
        x == PadLeft(a, L)
        y == PadLeft(b, L)
        carry(i) ==
            IF \E g \in (i + 1)..L :
                  x[g] = 1 /\ y[g] = 1 /\ \A k \in (i + 1)..(g - 1) : x[k] + y[k] >= 1
            THEN 1 ELSE 0
    IN  Strip(<<carry(0)>> \o [i \in 1..L |-> (x[i] + y[i] + carry(i)) % 2])

\* a - b for a >= b.  The borrow from bit i comes from a less significant
\* bit g where a has 0 and b has 1, through bits where a has no more than b.
BitSub(a, b) ==
    LET L == Max2(Len(a), Len(b))
        x == PadLeft(a, L)
        y == PadLeft(b, L)
        borrow(i) ==
            IF \E g \in (i + 1)..L :
                  x[g] < y[g] /\ \A k \in (i + 1)..(g - 1) : x[k] <= y[k]
            THEN 1 ELSE 0
    IN  Strip(Seq0([i \in 1..L |-> (x[i] - y[i] - borrow(i) + 2) % 2]))

\* a < b, for binary naturals without leading 0 bits
BitLess(a, b) ==
    \/ Len(a) < Len(b)
    \/ /\ Len(a) = Len(b)
       /\ \E i \in DOMAIN a : a[i] < b[i] /\ \A j \in 1..(i - 1) : a[j] = b[j]

\* a * b: a times the high half of b, shifted, plus a times the low half
RECURSIVE BitMul(_, _)
BitMul(a, b) ==
    IF Len(b) = 0 THEN <<>>
    ELSE IF Len(b) = 1 THEN (IF b[1] = 1 THEN a ELSE <<>>)
    ELSE LET h == Len(b) \div 2
             high == BitMul(a, SubSeq(b, 1, h))
             low == BitMul(a, SubSeq(b, h + 1, Len(b)))
         IN  BitAdd(ShiftLeft(high, Len(b) - h), low)

\* the float sign * bits * 2^exp, for a binary natural of any shape
MakeFloat(sign, bits, exp) ==
    LET b == Strip(bits)
        z == TrailingZeros(b)
    IN  IF b = <<>> THEN [sign |-> 1, man |-> <<>>, exp |-> 0]
        ELSE [sign |-> sign, man |-> SubSeq(b, 1, Len(b) - z), exp |-> exp + z]

\* the float of p significant bits nearest to sign * (bits + e) * 2^exp, with
\* 0 < e < 1 when sticky and e = 0 otherwise; ties go to the even mantissa
RoundTo(p, sign, bits, exp, sticky) ==
    LET b == Strip(bits)
        L == Len(b)
    IN  IF L <= p THEN MakeFloat(sign, b, exp)
        ELSE LET keep == SubSeq(b, 1, p)
                 rest == sticky \/ \E i \in (p + 2)..L : b[i] = 1
                 up == b[p + 1] = 1 /\ (rest \/ keep[p] = 1)
             IN  MakeFloat(sign, IF up THEN BitAdd(keep, <<1>>) ELSE keep, exp + (L - p))

\* the Python float written as the decimal literal of the rational cell v:
\* the binary expansion of |v| to p + 11 fractional bits, rounded
PyFloat(v) ==
    LET n == Abs(v.n)
        K == float64 + 11
        rem(i) == ((n % v.d) * Pow2Mod(i, v.d)) % v.d
    IN  RoundTo(float64, IF v.n < 0 THEN -1 ELSE 1,
                BitsOf(n \div v.d) \o [i \in 1..K |-> (2 * rem(i - 1)) \div v.d],
                -K, rem(K) # 0)

\* float(n) for an int n
IntToFloat(n) == MakeFloat(IF n < 0 THEN -1 ELSE 1, BitsOf(Abs(n)), 0)

FloatNeg(a) == IF a.man = <<>> THEN a ELSE [a EXCEPT !.sign = -a.sign]

\* a + b at precision p
FloatAdd(p, a, b) ==
    IF a.man = <<>> THEN RoundTo(p, b.sign, b.man, b.exp, FALSE)
    ELSE IF b.man = <<>> THEN RoundTo(p, a.sign, a.man, a.exp, FALSE)
    ELSE LET e == Min2(a.exp, b.exp)
             x == ShiftLeft(a.man, a.exp - e)
             y == ShiftLeft(b.man, b.exp - e)
         IN  IF a.sign = b.sign THEN RoundTo(p, a.sign, BitAdd(x, y), e, FALSE)
             ELSE IF BitLess(x, y) THEN RoundTo(p, b.sign, BitSub(y, x), e, FALSE)
             ELSE RoundTo(p, a.sign, BitSub(x, y), e, FALSE)

FloatSub(p, a, b) == FloatAdd(p, a, FloatNeg(b))

\* a * b at precision p
FloatMul(p, a, b) ==
    RoundTo(p, a.sign * b.sign,
            IF Len(a.man) < Len(b.man) THEN BitMul(b.man, a.man) ELSE BitMul(a.man, b.man),
            a.exp + b.exp, FALSE)

\* int(a): the float truncated towards zero
py_int(a) ==
    IF a.exp >= 0 THEN a.sign * NatOf(ShiftLeft(a.man, a.exp))
    ELSE IF Len(a.man) + a.exp <= 0 THEN 0
    ELSE a.sign * NatOf(SubSeq(a.man, 1, Len(a.man) + a.exp))

\* the rational cell of a float whose mantissa and exponent are small
FloatToCell(a) ==
    IF a.exp >= 0 THEN Num(a.sign * NatOf(ShiftLeft(a.man, a.exp)))
    ELSE Frac(a.sign * NatOf(a.man), NatOf(ShiftLeft(<<1>>, -a.exp)))

-----------------------------------------------------------------------------
(* features/feature_engineering.py: the chronological split *)

\* the position that a slice bound k stands for in a sequence of n rows
SliceBound(k, n) == IF k < 0 THEN Max2(n + k, 0) ELSE Min2(k, n)

\* df.iloc[:k]
iloc_until(t, k) ==
    [columns |-> t.columns, rows |-> SubSeq(t.rows, 1, SliceBound(k, Len(t.rows)))]

\* mutant: the test rows start one row early
iloc_from_OneEarly(t, k) ==
    [columns |-> t.columns,
     rows |-> SubSeq(t.rows, Max2(SliceBound(k, Len(t.rows)), 1), Len(t.rows))]

\* df.iloc[k:]
iloc_from(t, k) ==
    [columns |-> t.columns,
     rows |-> SubSeq(t.rows, SliceBound(k, Len(t.rows)) + 1, Len(t.rows))]

\* int(len(df) * (1 - test_size))
split_idx(n, size) ==
    py_int(FloatMul(float64, IntToFloat(n), FloatSub(float64, IntToFloat(1), size)))

\* a pandas Series
Series(vals) == [values |-> Seq0(vals)]

\* FeatureEngineer.prepare_train_test_split; train_df is its local table
prepare_train_test_split(t, features, size) ==
    LET idx == split_idx(Len(t.rows), size)
        train_df == iloc_until(t, idx)
        test_df == iloc_from(t, idx)
    IN  IF target \notin Range(t.columns) \/ ~(Range(features) \subseteq Range(t.columns))
        THEN [raised |-> "KeyError"]
        ELSE [raised |-> "",
              train_df |-> train_df,
              X_train |-> Select(train_df, features),
              X_test |-> Select(test_df, features),
              y_train |-> Series(Column(train_df, target)),
              y_test |-> Series(Column(test_df, target)),
              test_df |-> test_df]

-----------------------------------------------------------------------------
(* model/predictor.py.  A feature matrix is a table, a target a Series, a   *)
(* prediction a numpy array [dtype, values] of floats of dtype bits.        *)

Raise(e) == [raised |-> e, value |-> None]
Return(v) == [raised |-> "", value |-> v]

ModelNames == <<"rf", "gb", "xgb">>

\* an estimator before fit
NotFitted == [fitted |-> FALSE]

\* Attribute of an instance that was never assigned
Unset == [unset |-> TRUE]

\* StandardScaler.fit: the mean and the population standard deviation of
\* every column, a deviation of 0 replaced by 1
scaler_fit(X) ==
    LET n == Num(Len(X.rows))
        col(c) == Column(X, c)
        mean(c) == FDiv(SumCells(col(c)), n)
        var(c) == FDiv(SumCells([i \in 1..Len(X.rows) |->
                          FMul(FSub(col(c)[i], mean(c)), FSub(col(c)[i], mean(c)))]), n)
    IN  [fitted |-> TRUE,
         mean_ |-> [c \in Range(X.columns) |-> mean(c)],
         scale_ |-> [c \in Range(X.columns) |->
                       IF var(c) = Num(0) THEN Num(1) ELSE Sqrt(var(c))]]

\* (x - mean) / scale, for a scale that may be a square root
Standardize(x, mean, scale) ==
    LET c == FSub(x, mean)
    IN  IF scale.r = 1 THEN FDiv(c, scale)
        ELSE LET q == Sqrt(FDiv(FMul(c, c), Frac(scale.n, scale.d)))
             IN  IF c.n < 0 THEN [q EXCEPT !.n = -q.n] ELSE q

\* StandardScaler.transform: rejects an unfitted scaler, a matrix without
\* rows and a matrix of other columns than it was fitted on
scaler_transform(scaler, X) ==
    IF ~scaler.fitted THEN Raise("NotFittedError")
    ELSE IF Len(X.rows) = 0 \/ Range(X.columns) # DOMAIN scaler.mean_ THEN Raise("ValueError")
    ELSE Return([columns |-> X.columns,
                 rows |-> Seq0([i \in 1..Len(X.rows) |->
                            [c \in Range(X.columns) |->
                               Standardize(X.rows[i][c], scaler.mean_[c], scaler.scale_[c])]])])

\* A fitted regressor, as far as predict can tell: a tree of one split on
\* the first (scaled) feature, with a value for each side, and the dtype of
\* the array it returns.  A constant regressor has the same value twice.
Tree(low, high, dtype) == [fitted |-> TRUE, low |-> low, high |-> high, dtype |-> dtype]
Constantly(c, dtype) == Tree(c, c, dtype)

\* model.predict(X_scaled)
model_predict(model, X_scaled) ==
    [dtype |-> model.dtype,
     values |-> Seq0([i \in 1..Len(X_scaled.rows) |->
                   IntToFloat(IF X_scaled.rows[i][X_scaled.columns[1]].n <= 0
                              THEN model.low ELSE model.high)])]

\* w * a for a Python float w and an array a: the array keeps its dtype
ScalarTimes(w, a) ==
    [dtype |-> a.dtype,
     values |-> Seq0([i \in 1..Len(a.values) |->
                   FloatMul(a.dtype, RoundTo(a.dtype, w.sign, w.man, w.exp, FALSE), a.values[i])])]

\* a + b for two arrays: in the wider of their dtypes
ArrayAdd(a, b) ==
    [dtype |-> Max2(a.dtype, b.dtype),
     values |-> Seq0([i \in 1..Len(a.values) |->
                   FloatAdd(Max2(a.dtype, b.dtype), a.values[i], b.values[i])])]

\* StockPredictor.__init__
StockPredictor ==
    [scaler |-> NotFitted,
     models |-> [name \in Range(ModelNames) |-> NotFitted],
     weights |-> [rf |-> PyFloat(Frac(3, 10)), gb |-> PyFloat(Frac(3, 10)),
                  xgb |-> PyFloat(Frac(4, 10))],
     is_trained |-> FALSE,
     X_train_scaled |-> None,
     y_train |-> None,
     X_train |-> Unset]

\* StockPredictor.train(X_train, y_train).  `learned` is what fit makes of
\* each component on this training set; `abort` names the step that raises,
\* if one does.  A scaler whose fit raises is left reset; a component whose
\* fit raises is left as it was.
train(self, X_train, y_train, learned, abort) ==
    IF Len(X_train.rows) = 0 \/ abort = "scaler"
    THEN [raised |-> "ValueError", self |-> [self EXCEPT !.scaler = NotFitted]]
    ELSE LET kept == [self EXCEPT !.scaler = scaler_fit(X_train),
                                  !.X_train = X_train,
                                  !.y_train = y_train]
             done(k) == [kept EXCEPT !.models =
                           [name \in Range(ModelNames) |->
                              IF \E j \in 1..k : ModelNames[j] = name
                              THEN learned[name] ELSE self.models[name]]]
         IN  IF \E k \in 1..Len(ModelNames) : ModelNames[k] = abort
             THEN [raised |-> "ValueError",
                   self |-> done((CHOOSE k \in 1..Len(ModelNames) : ModelNames[k] = abort) - 1)]
             ELSE [raised |-> "",
                   self |-> [done(Len(ModelNames)) EXCEPT !.is_trained = TRUE]]

\* the weighted sum of lines 68-72
ensemble(weights, predictions) ==
    ArrayAdd(ArrayAdd(ScalarTimes(weights.rf, predictions.rf),
                      ScalarTimes(weights.gb, predictions.gb)),
             ScalarTimes(weights.xgb, predictions.xgb))

\* mutant: the weights of rf and xgb change places
predict_WeightsSwapped(self, X) ==
    IF ~self.is_trained THEN Raise("ValueError")
    ELSE LET X_scaled == scaler_transform(self.scaler, X)
         IN  IF X_scaled.raised # "" THEN Raise(X_scaled.raised)
             ELSE IF \E name \in Range(ModelNames) : ~self.models[name].fitted
             THEN Raise("NotFittedError")
             ELSE Return(ensemble(
                     [rf |-> self.weights.xgb, gb |-> self.weights.gb, xgb |-> self.weights.rf],
                     [name \in Range(ModelNames) |->
                        model_predict(self.models[name], X_scaled.value)]))

\* mutant: no check of is_trained
predict_Unguarded(self, X) ==
    LET X_scaled == scaler_transform(self.scaler, X)
    IN  IF X_scaled.raised # "" THEN Raise(X_scaled.raised)
        ELSE IF \E name \in Range(ModelNames) : ~self.models[name].fitted
        THEN Raise("NotFittedError")
        ELSE Return(ensemble(self.weights,
                             [name \in Range(ModelNames) |->
                                model_predict(self.models[name], X_scaled.value)]))

\* StockPredictor.predict(X)
predict(self, X) ==
    IF ~self.is_trained THEN Raise("ValueError")
    ELSE LET X_scaled == scaler_transform(self.scaler, X)
         IN  IF X_scaled.raised # "" THEN Raise(X_scaled.raised)
             ELSE IF \E name \in Range(ModelNames) : ~self.models[name].fitted
             THEN Raise("NotFittedError")
             ELSE Return(ensemble(self.weights,
                                  [name \in Range(ModelNames) |->
                                     model_predict(self.models[name], X_scaled.value)]))

FAbs(v) == IF v.n < 0 THEN [v EXCEPT !.n = -v.n] ELSE v

\* np.mean of cells: NaN when one is not finite or there is none
Mean(s) ==
    IF Len(s) = 0 \/ \E i \in DOMAIN s : isna(s[i]) THEN NaN
    ELSE FDiv(SumCells(s), Num(Len(s)))

\* np.diff(s) > 0
Rising(s) == Seq0([i \in 1..(Len(s) - 1) |-> FLess(s[i], s[i + 1])])

\* mutant: the agreements are averaged over the rows, not the transitions
DirectionAccuracy_OverRows(y_true, y_pred) ==
    LET n == Len(y_true)
        actual_direction == Rising(y_true)
        pred_direction == Rising(y_pred)
        agree == Seq0([i \in 1..(n - 1) |->
                    IF actual_direction[i] = pred_direction[i] THEN Num(1) ELSE Num(0)])
    IN  IF n < 2 THEN NaN ELSE FMul(FDiv(SumCells(agree), Num(n)), Num(100))

\* lines 84-87 of _compute_metrics: np.mean(np.diff(y_true) > 0 ==
\* np.diff(y_pred) > 0) * 100
DirectionAccuracy(y_true, y_pred) ==
    LET n == Len(y_true)
        actual_direction == Rising(y_true)
        pred_direction == Rising(y_pred)
        m == Mean(Seq0([i \in 1..(n - 1) |->
                 IF actual_direction[i] = pred_direction[i] THEN Num(1) ELSE Num(0)]))
    IN  IF isna(m) THEN NaN ELSE FMul(m, Num(100))

\* StockPredictor._compute_metrics; the metrics are the real numbers that
\* the float results approximate
compute_metrics(y_true, y_pred) ==
    LET n == Len(y_true)
        err == [i \in 1..n |-> FSub(y_true[i], y_pred[i])]
    IN  [rmse |-> Sqrt(Mean([i \in 1..n |-> FMul(err[i], err[i])])),
         mae |-> Mean([i \in 1..n |-> FAbs(err[i])]),
         mape |-> LET m == Mean([i \in 1..n |-> FAbs(FDiv(err[i], y_true[i]))])
                  IN  IF isna(m) THEN NaN ELSE FMul(m, Num(100)),
         direction_accuracy |-> DirectionAccuracy(y_true, y_pred)]

\* a - b for two cells that may be square roots: the difference of two
\* different roots is kept as the pair
RootDiff(a, b) ==
    IF isna(a) \/ isna(b) THEN NaN
    ELSE IF a = b THEN Num(0)
    ELSE IF a.r = 1 /\ b.r = 1 THEN FSub(a, b)
    ELSE [minus |-> <<a, b>>]

Cells(a) == [i \in 1..Len(a.values) |-> FloatToCell(a.values[i])]

\* StockPredictor.evaluate(X_test, y_test)
evaluate(self, X_test, y_test) ==
    LET test_predictions == predict(self, X_test)
    IN  IF test_predictions.raised # "" THEN Raise(test_predictions.raised)
        ELSE IF Len(y_test.values) # Len(test_predictions.value.values) THEN Raise("ValueError")
        ELSE IF self.X_train = Unset THEN Raise("AttributeError")
        ELSE LET train_predictions == predict(self, self.X_train)
             IN  IF train_predictions.raised # "" THEN Raise(train_predictions.raised)
                 ELSE LET test == compute_metrics(y_test.values, Cells(test_predictions.value))
                          train_ == compute_metrics(self.y_train.values,
                                                    Cells(train_predictions.value))
                      IN  Return([metrics |->
                                    [Train_RMSE |-> train_.rmse,
                                     Train_MAE |-> train_.mae,
                                     Train_MAPE |-> train_.mape,
                                     Train_Direction_Accuracy |-> train_.direction_accuracy,
                                     Test_RMSE |-> test.rmse,
                                     Test_MAE |-> test.mae,
                                     Test_MAPE |-> test.mape,
                                     Test_Direction_Accuracy |-> test.direction_accuracy,
                                     RMSE_Gap |-> RootDiff(test.rmse, train_.rmse),
                                     MAE_Gap |-> FSub(test.mae, train_.mae)],
                                  test_predictions |-> test_predictions.value])

\* The file at config.MODEL_PATH
NoFile == [exists |-> FALSE]

\* StockPredictor.save_model: what pickle.dump writes
save_model(self) ==
    [exists |-> TRUE,
     models |-> self.models,
     scaler |-> self.scaler,
     weights |-> self.weights,
     is_trained |-> self.is_trained]

\* a file that pickle.load cannot read
Corrupt == [exists |-> TRUE, corrupt |-> TRUE]

\* the entries of model_data, in the order in which load_model reads them
BlobKeys == <<"models", "scaler", "weights", "is_trained">>

\* a pickled dictionary that lacks the entry key
Without(file, key) == [k \in DOMAIN file \ {key} |-> file[k]]

\* mutant: the scaler of the file is not taken over
load_model_KeepsScaler(self, file) ==
    IF ~file.exists THEN [raised |-> "FileNotFoundError", self |-> self]
    ELSE IF "corrupt" \in DOMAIN file THEN [raised |-> "UnpicklingError", self |-> self]
    ELSE IF \E k \in 1..Len(BlobKeys) : BlobKeys[k] \notin DOMAIN file
    THEN [raised |-> "KeyError", self |-> self]
    ELSE [raised |-> "",
          self |-> [self EXCEPT !.models = file.models,
                                !.weights = file.weights,
                                !.is_trained = file.is_trained]]

\* StockPredictor.load_model: open and pickle.load raise before anything is
\* assigned; the four assignments of lines 172-175 run in order, and the
\* first entry that the dictionary lacks raises KeyError after the earlier
\* ones were assigned
load_model(self, file) ==
    IF ~file.exists THEN [raised |-> "FileNotFoundError", self |-> self]
    ELSE IF "corrupt" \in DOMAIN file THEN [raised |-> "UnpicklingError", self |-> self]
    ELSE LET missing == {k \in 1..Len(BlobKeys) : BlobKeys[k] \notin DOMAIN file}
             stop == IF missing = {} THEN Len(BlobKeys) + 1
                     ELSE CHOOSE k \in missing : \A j \in missing : k <= j
             assigned == {BlobKeys[k] : k \in 1..(stop - 1)}
         IN  [raised |-> IF missing = {} THEN "" ELSE "KeyError",
              self |-> [a \in DOMAIN self |-> IF a \in assigned THEN file[a] ELSE self[a]]]

-----------------------------------------------------------------------------
(* Inputs *)

Days == 1..MaxDate
Closes == {10, 11}

\* a price table: one row per trading day, ascending, no day twice
StockTable(S, c) ==
    LET days == SortedSeq(S)
    IN  [columns |-> <<Date, close>>,
         rows |-> [i \in 1..Len(days) |-> (Date :> Timestamp(days[i])) @@ (close :> Num(c[days[i]]))]]

StockTables == UNION {{StockTable(S, c) : c \in [S -> Closes]} : S \in SUBSET Days}

\* the price tables of one fixed close series, over every calendar, and
\* over the calendars that miss at most one day
CalendarTables == {StockTable(S, [d \in S |-> 10 + d]) : S \in (SUBSET Days) \ {{}}}
DenseCalendars == {t \in CalendarTables : Len(t.rows) >= MaxDate - 1}

SignalDays == {S \in SUBSET Days : Cardinality(S) <= MaxSignalRows}

\* a daily table as an aggregator returns it: one row per date, ascending
SignalTable(cols, S, f, date(_)) ==
    LET days == SortedSeq(S)
    IN  [columns |-> <<Date>> \o cols,
         rows |-> [i \in 1..Len(days) |-> (Date :> date(days[i])) @@ f[days[i]]]]

\* daily news summaries: of one headline of polarity 1/2; of two headlines
\* of polarity -3/5 and 1/5
NewsSummaries ==
    { (avg_sentiment :> Frac(1, 2)) @@ (sentiment_std :> NaN) @@ (positive_ratio :> Num(1))
        @@ (negative_ratio :> Num(0)) @@ (news_volume :> Num(1)),
      (avg_sentiment :> Frac(-1, 5)) @@ (sentiment_std :> Sqrt(Frac(8, 25)))
        @@ (positive_ratio :> Frac(1, 2)) @@ (negative_ratio :> Frac(1, 2))
        @@ (news_volume :> Num(2)) }

\* daily reddit summaries: of one post of polarity 1/2 and score 3; of two
\* posts of polarity -3/5 and 1/5, both of score 0
RedditSummaries ==
    { (reddit_avg_sentiment :> Frac(1, 2)) @@ (reddit_weighted_sentiment :> Frac(1, 2))
        @@ (reddit_volume :> Num(1)) @@ (reddit_engagement :> Num(3))
        @@ (reddit_positive_ratio :> Num(1)),
      (reddit_avg_sentiment :> Frac(-1, 5)) @@ (reddit_weighted_sentiment :> Num(0))
        @@ (reddit_volume :> Num(2)) @@ (reddit_engagement :> Num(0))
        @@ (reddit_positive_ratio :> Frac(1, 2)) }

NewsTables ==
    UNION {{SignalTable(NewsColumns, S, f, PyDate) : f \in [S -> NewsSummaries]} : S \in SignalDays}
        \cup {None, EmptyDataFrame}

RedditTables ==
    UNION {{SignalTable(RedditColumns, S, f, PyDate) : f \in [S -> RedditSummaries]} : S \in SignalDays}
        \cup {None, EmptyDataFrame}

Volumes == 0..2

\* what interest_over_time() returns: one sample per date, ascending
TrendsRawTables ==
    UNION {{SignalTable(<<search_volume>>, S, [d \in S |-> (search_volume :> Num(v[d]))], Timestamp) :
               v \in [S -> Volumes]} : S \in SignalDays}
        \cup {Unavailable}

NoNews == {None}
NoTrends == {EmptyDataFrame}

\* the tables of exactly one row
OneRow(tables) == {t \in tables : HasRows(t) /\ Len(t.rows) = 1}

Inputs(stocks, newss, reddits, raws) ==
    /\ stock_df \in stocks
    /\ news_df \in newss
    /\ reddit_df \in reddits
    /\ trends_raw \in raws

FullCalendar == {StockTable(Days, [d \in Days |-> 10 + d])}

\* no split is asked for, and there is no predictor
NoSplit == test_fraction = None /\ test_size = None /\ split = None
NoPredictor == predictor = None /\ disk = NoFile /\ result = None
NoMetrics == actual = None /\ predicted = None /\ metrics = None
NoAggregation == scraped = None /\ aggregated = None

Init ==
    /\ pc = "start"
    /\ trends_df = None
    /\ df = None
    /\ feature_columns = <<>>
    /\ NoSplit
    /\ NoPredictor
    /\ NoMetrics
    /\ NoAggregation
    /\ \/ Inputs(StockTables \cup {EmptyDataFrame}, NoNews, NoNews, NoTrends)
       \/ Inputs(DenseCalendars, NewsTables, NoNews, NoTrends)
       \/ Inputs(DenseCalendars, NoNews, RedditTables, NoTrends)
       \/ Inputs(DenseCalendars, NoNews, NoNews, TrendsRawTables)
       \/ Inputs(CalendarTables, OneRow(NewsTables), NoNews, NoTrends)
       \/ Inputs(CalendarTables, NoNews, OneRow(RedditTables), NoTrends)
       \/ Inputs(CalendarTables, NoNews, NoNews, OneRow(TrendsRawTables))
       \/ Inputs(FullCalendar, OneRow(NewsTables), OneRow(RedditTables),
                 OneRow(TrendsRawTables))

-----------------------------------------------------------------------------
(* The run *)

\* trends_df = trends_scraper.get_search_trends(...)
GetSearchTrends ==
    /\ pc = "start"
    /\ trends_df' = get_search_trends(trends_raw)
    /\ pc' = "trends"
    /\ UNCHANGED <<stock_df, news_df, reddit_df, trends_raw, df, feature_columns>>
    /\ UNCHANGED <<splitVars, predictorVars, metricsVars, aggVars>>

\* combined_df = engineer.combine_all_features(stock_df, news, trends_df, reddit);
\* the Date columns of the signal tables given are normalised in place
CombineAllFeatures ==
    /\ pc = "trends"
    /\ LET out == combine_all_features(stock_df, news_df, trends_df, reddit_df)
       IN  IF out.raised # ""
           THEN /\ pc' = "error"
                /\ UNCHANGED <<news_df, reddit_df, trends_df, df, feature_columns>>
           ELSE /\ pc' = "fused"
                /\ df' = out.df
                /\ feature_columns' = out.feature_columns
                /\ news_df' = IF Given(news_df) THEN NormalizeDate(news_df) ELSE news_df
                /\ reddit_df' = IF Given(reddit_df) THEN NormalizeDate(reddit_df) ELSE reddit_df
                /\ trends_df' = IF Given(trends_df) THEN NormalizeDate(trends_df) ELSE trends_df
    /\ UNCHANGED <<stock_df, trends_raw>>
    /\ UNCHANGED <<splitVars, predictorVars, metricsVars, aggVars>>

vars == <<pc, fusionVars, splitVars, predictorVars, metricsVars, aggVars>>

Next == GetSearchTrends \/ CombineAllFeatures

Spec == Init /\ [][Next]_vars

-----------------------------------------------------------------------------
(* The split of a fused table *)

\* the test fractions a caller writes: tenths, and values outside (0, 1)
TestFractions ==
    {Frac(k, 10) : k \in 0..10} \cup {Frac(-1, 2), Frac(3, 2), Frac(5, 2)}

\* the price table of the trading days 1..n
DailyPrices(n) == StockTable(1..n, [d \in 1..n |-> 10 + d])

\* a fused table of 0..MaxSplitRows rows, and a test fraction
InitSplit ==
    /\ pc = "fused"
    /\ \E n \in 1..(MaxSplitRows + 1) :
         /\ stock_df = DailyPrices(n)
         /\ LET out == combine_all_features(DailyPrices(n), None, EmptyDataFrame, None)
            IN  df = out.df /\ feature_columns = out.feature_columns
    /\ news_df = None
    /\ reddit_df = None
    /\ trends_raw = Unavailable
    /\ trends_df = EmptyDataFrame
    /\ test_fraction \in TestFractions
    /\ test_size = PyFloat(test_fraction)
    /\ split = None
    /\ NoPredictor
    /\ NoMetrics
    /\ NoAggregation

\* engineer.prepare_train_test_split(combined_df, test_size=...)
PrepareTrainTestSplit ==
    /\ pc = "fused"
    /\ test_size # None
    /\ split' = prepare_train_test_split(df, feature_columns, test_size)
    /\ pc' = IF split'.raised = "" THEN "split" ELSE "error"
    /\ UNCHANGED <<fusionVars, test_fraction, test_size, predictorVars, metricsVars, aggVars>>

NextSplit == PrepareTrainTestSplit

SpecSplit == InitSplit /\ [][NextSplit]_vars

-----------------------------------------------------------------------------
(* The calls on a predictor *)

\* a feature matrix of one column
Matrix(vals) ==
    [columns |-> <<close>>,
     rows |-> Seq0([i \in 1..Len(vals) |-> (close :> Num(vals[i]))])]

Targets(vals) == Series([i \in 1..Len(vals) |-> Num(vals[i])])

\* three components that return 10, 20 and 30 on every row
Stubs ==
    [rf |-> Constantly(10, float64), gb |-> Constantly(20, float64),
     xgb |-> Constantly(30, float64)]

\* three components whose value depends on the row; XGBRegressor.predict
\* returns float32
Trees ==
    [rf |-> Tree(10, 30, float64), gb |-> Tree(30, 10, float64),
     xgb |-> Tree(20, 30, float32)]

\* the training sets, each with what the components learn from it; the
\* last has no row
Trainings ==
    { [X |-> Matrix(<<1, 3>>), y |-> Targets(<<10, 30>>), learned |-> Stubs],
      [X |-> Matrix(<<4, 2, 2>>), y |-> Targets(<<0, 20, 10>>), learned |-> Trees],
      [X |-> Matrix(<<>>), y |-> Targets(<<>>), learned |-> Stubs] }

\* the step of train that raises, if one does
Aborts == {"", "scaler", "gb"}

TestSets ==
    { [X |-> Matrix(<<3, 1, 3>>), y |-> Targets(<<1, 2, 1>>)],
      [X |-> Matrix(<<1>>), y |-> Targets(<<10>>)],
      [X |-> Matrix(<<2, 4>>), y |-> Targets(<<0, 20>>)],
      [X |-> Matrix(<<>>), y |-> Targets(<<>>)] }

PredictInputs == {Matrix(<<1, 3>>), Matrix(<<5>>), Matrix(<<>>)}

Outcome(op, X, out) == [op |-> op, X |-> X, raised |-> out.raised, value |-> out.value]

InitPredictor ==
    /\ pc = "model"
    /\ stock_df = EmptyDataFrame
    /\ news_df = None
    /\ reddit_df = None
    /\ trends_raw = Unavailable
    /\ trends_df = None
    /\ df = None
    /\ feature_columns = <<>>
    /\ NoSplit
    /\ NoMetrics
    /\ NoAggregation
    /\ predictor = StockPredictor
    /\ disk = NoFile
    /\ result = Outcome("init", None, Return(None))

\* predictor = StockPredictor()
NewStockPredictor ==
    /\ pc = "model"
    /\ predictor' = StockPredictor
    /\ result' = Outcome("init", None, Return(None))
    /\ UNCHANGED <<pc, fusionVars, splitVars, metricsVars, aggVars, disk>>

\* predictor.train(X_train, y_train)
Train ==
    /\ pc = "model"
    /\ \E t \in Trainings, abort \in Aborts :
         LET out == train(predictor, t.X, t.y, t.learned, abort)
         IN  /\ predictor' = out.self
             /\ result' = Outcome("train", None, [raised |-> out.raised, value |-> None])
    /\ UNCHANGED <<pc, fusionVars, splitVars, metricsVars, aggVars, disk>>

\* mutant: predict fits the scaler again, on the matrix it is given
Predict_RefitsScaler ==
    /\ pc = "model"
    /\ \E X \in PredictInputs :
         /\ result' = Outcome("predict", X, predict(predictor, X))
         /\ predictor' = IF predictor.is_trained /\ Len(X.rows) > 0
                         THEN [predictor EXCEPT !.scaler = scaler_fit(X)]
                         ELSE predictor
    /\ UNCHANGED <<pc, fusionVars, splitVars, metricsVars, aggVars, disk>>

\* predictor.predict(X)
Predict ==
    /\ pc = "model"
    /\ \E X \in PredictInputs : result' = Outcome("predict", X, predict(predictor, X))
    /\ UNCHANGED <<pc, fusionVars, splitVars, metricsVars, aggVars, predictor, disk>>

\* predictor.evaluate(X_test, y_test)
Evaluate ==
    /\ pc = "model"
    /\ \E t \in TestSets : result' = Outcome("evaluate", t.X, evaluate(predictor, t.X, t.y))
    /\ UNCHANGED <<pc, fusionVars, splitVars, metricsVars, aggVars, predictor, disk>>

\* predictor.save_model(config.MODEL_PATH)
SaveModel ==
    /\ pc = "model"
    /\ disk' = save_model(predictor)
    /\ result' = Outcome("save_model", None, Return(None))
    /\ UNCHANGED <<pc, fusionVars, splitVars, metricsVars, aggVars, predictor>>

\* predictor.load_model(config.MODEL_PATH)
LoadModel ==
    /\ pc = "model"
    /\ LET out == load_model(predictor, disk)
       IN  /\ predictor' = out.self
           /\ result' = Outcome("load_model", None, [raised |-> out.raised, value |-> None])
    /\ UNCHANGED <<pc, fusionVars, splitVars, metricsVars, aggVars, disk>>

\* Another program leaves a file at config.MODEL_PATH: one that cannot be
\* unpickled, or the dictionary of an earlier save without one of its entries
ReplaceModelFile ==
    /\ pc = "model"
    /\ disk' \in {Corrupt} \cup
                 (IF \A k \in 1..Len(BlobKeys) : BlobKeys[k] \in DOMAIN disk
                  THEN {Without(disk, BlobKeys[k]) : k \in 1..Len(BlobKeys)}
                  ELSE {})
    /\ result' = Outcome("file replaced", None, Return(None))
    /\ UNCHANGED <<pc, fusionVars, splitVars, metricsVars, aggVars, predictor>>

NextPredictor ==
    NewStockPredictor \/ Train \/ Predict \/ Evaluate \/ SaveModel \/ LoadModel

\* SpecStorage: predictors are made, trained, saved and loaded while the
\* file may be replaced from outside
NextStorage ==
    NewStockPredictor \/ Train \/ SaveModel \/ LoadModel \/ ReplaceModelFile

SpecPredictor == InitPredictor /\ [][NextPredictor]_vars

SpecStorage == InitPredictor /\ [][NextStorage]_vars

-----------------------------------------------------------------------------
(* _compute_metrics on its own: SpecMetrics hands it two series of the same *)
(* length, the predicted one within 1 of the actual one on every row.       *)

ActualSeries ==
    UNION {[1..n -> 0..MaxMetricValue] : n \in 1..MaxMetricRows}

PredictedSeries(a) ==
    {p \in [DOMAIN a -> -1..(MaxMetricValue + 1)] :
        \A i \in DOMAIN a : p[i] - a[i] \in -1..1}

InitMetrics ==
    /\ pc = "metrics"
    /\ stock_df = EmptyDataFrame
    /\ news_df = None
    /\ reddit_df = None
    /\ trends_raw = Unavailable
    /\ trends_df = None
    /\ df = None
    /\ feature_columns = <<>>
    /\ NoSplit
    /\ NoPredictor
    /\ \E a \in ActualSeries :
         /\ actual = Targets(a)
         /\ \E p \in PredictedSeries(a) : predicted = Targets(p)
    /\ metrics = None
    /\ NoAggregation

\* self._compute_metrics(y_true, y_pred)
ComputeMetrics ==
    /\ pc = "metrics"
    /\ pc' = "measured"
    /\ metrics' = compute_metrics(actual.values, predicted.values)
    /\ UNCHANGED <<fusionVars, splitVars, predictorVars, actual, predicted, aggVars>>

NextMetrics == ComputeMetrics

SpecMetrics == InitMetrics /\ [][NextMetrics]_vars

-----------------------------------------------------------------------------
(* data_scrapers/news_scraper*.py and reddit_scraper*.py: the aggregators.  *)
(* A scraped frame is the sequence of its events.  A headline is            *)
(* [Date, sentiment_score], a post [Date, sentiment_score, score]; a Date   *)
(* is a python date, or None for a headline that FinViz listed before any   *)
(* date.  SpecAggregate hands the frames of one scrape to an aggregator.    *)

\* all_news / all_posts: the frames that are not empty
NonEmptyFrames(frames) == SelectSeq(frames, LAMBDA f : Len(f) > 0)

\* the dates of the events, ascending as groupby('Date') lists them; a
\* missing Date is no group
EventDates(events) ==
    SortedSeq({events[i].Date.day : i \in {j \in DOMAIN events : events[j].Date # None}})

\* the group of one date
OnDate(events, day) == SelectSeq(events, LAMBDA e : e.Date = PyDate(day))

sentiment_scores(events) == Seq0([i \in 1..Len(events) |-> events[i].sentiment_score])

\* the sum of the column 'score'
score_sum(events) == SumCells([i \in 1..Len(events) |-> Num(events[i].score)]).n

\* Series.mean()
SeriesMean(x) == IF Len(x) = 0 THEN NaN ELSE FDiv(SumCells(x), Num(Len(x)))

\* Series.std(): the sample standard deviation, NaN for fewer than 2 values
SeriesStd(x) ==
    IF Len(x) < 2 THEN NaN
    ELSE LET mean == SeriesMean(x)
             sq == [i \in 1..Len(x) |-> FMul(FSub(x[i], mean), FSub(x[i], mean))]
         IN  Sqrt(FDiv(SumCells(sq), Num(Len(x) - 1)))

\* (x > 0.05).mean() and (x < -0.05).mean()
RatioAbove(x, bound) == Frac(Cardinality({i \in DOMAIN x : FLess(bound, x[i])}), Len(x))
RatioBelow(x, bound) == Frac(Cardinality({i \in DOMAIN x : FLess(x[i], bound)}), Len(x))

\* mutant: a polarity of exactly 0.05 counts as positive
DailyNewsRow_Inclusive(group) ==
    LET x == sentiment_scores(group)
    IN  (avg_sentiment :> SeriesMean(x))
        @@ (sentiment_std :> SeriesStd(x))
        @@ (positive_ratio :> Frac(Cardinality({i \in DOMAIN x : ~FLess(x[i], Frac(1, 20))}), Len(x)))
        @@ (negative_ratio :> RatioBelow(x, Frac(-1, 20)))
        @@ (news_volume :> Num(Len(group)))

\* the named aggregations of lines 133-139, for the headlines of one date
DailyNewsRow(group) ==
    LET x == sentiment_scores(group)
    IN  (avg_sentiment :> SeriesMean(x))
        @@ (sentiment_std :> SeriesStd(x))
        @@ (positive_ratio :> RatioAbove(x, Frac(1, 20)))
        @@ (negative_ratio :> RatioBelow(x, Frac(-1, 20)))
        @@ (news_volume :> Num(Len(group)))

\* NewsScraper.get_daily_sentiment (news_scraper2.py)
get_daily_sentiment(finviz_news, yahoo_news) ==
    LET all_news == NonEmptyFrames(<<finviz_news, yahoo_news>>)
        combined == SelectSeq(Concat(all_news), LAMBDA e : e.Date # None)
        dates == EventDates(combined)
    IN  IF all_news = <<>> THEN EmptyDataFrame
        ELSE [columns |-> <<Date>> \o NewsColumns,
              rows |-> Seq0([i \in 1..Len(dates) |->
                          (Date :> PyDate(dates[i])) @@ DailyNewsRow(OnDate(combined, dates[i]))])]

\* a python dict
Dict(items) == [items |-> items]

\* NewsScraper.get_aggregated_sentiment (news_scraper.py): one summary of
\* all the headlines, or the dictionary of zeros
get_aggregated_sentiment(finviz_news, yahoo_news) ==
    LET all_news == NonEmptyFrames(<<finviz_news, yahoo_news>>)
    IN  IF all_news # <<>> THEN Dict(DailyNewsRow(Concat(all_news)))
        ELSE Dict([c \in Range(NewsColumns) |-> Num(0)])

\* sum(x * score) over the posts
WeightedSum(group) ==
    SumCells([i \in 1..Len(group) |-> FMul(group[i].sentiment_score, Num(group[i].score))])

\* the named aggregations of lines 90-100, for the posts of one date
DailyRedditRow(group) ==
    LET x == sentiment_scores(group)
    IN  (reddit_avg_sentiment :> SeriesMean(x))
        @@ (reddit_weighted_sentiment :>
               FDiv(WeightedSum(group), Num(Max2(score_sum(group), 1))))
        @@ (reddit_volume :> Num(Len(group)))
        @@ (reddit_engagement :> Num(score_sum(group)))
        @@ (reddit_positive_ratio :> RatioAbove(x, Frac(1, 20)))

\* RedditScraper.get_daily_reddit_sentiment (reddit_scraper2.py)
get_daily_reddit_sentiment(frames) ==
    LET all_posts == NonEmptyFrames(frames)
        combined == Concat(all_posts)
        dates == EventDates(combined)
    IN  IF all_posts = <<>> THEN EmptyDataFrame
        ELSE [columns |-> <<Date>> \o RedditColumns,
              rows |-> Seq0([i \in 1..Len(dates) |->
                          (Date :> PyDate(dates[i])) @@ DailyRedditRow(OnDate(combined, dates[i]))])]

\* RedditScraper.get_reddit_sentiment (reddit_scraper.py): one summary of
\* all the posts, or the dictionary of zeros
get_reddit_sentiment(frames) ==
    LET all_posts == NonEmptyFrames(frames)
        combined == Concat(all_posts)
        x == sentiment_scores(combined)
        weighted_sentiment ==
            IF score_sum(combined) > 0
            THEN FDiv(WeightedSum(combined), Num(score_sum(combined)))
            ELSE SeriesMean(x)
    IN  IF all_posts # <<>>
        THEN Dict((reddit_avg_sentiment :> SeriesMean(x))
                  @@ (reddit_weighted_sentiment :> weighted_sentiment)
                  @@ (reddit_volume :> Num(Len(combined)))
                  @@ (reddit_engagement :> Num(score_sum(combined)))
                  @@ (reddit_positive_ratio :> RatioAbove(x, Frac(1, 20))))
        ELSE Dict([c \in Range(RedditColumns) |-> Num(0)])

\* the polarities of the headlines: either side of both thresholds, and on them
Polarities == {Frac(-1, 2), Frac(-1, 20), Frac(1, 20), Frac(1, 2)}

\* datetime.now().date(), and the dates that FinViz and Reddit give
today == PyDate(2)
EventDays == {PyDate(1), today}

FinvizEvents == [Date : EventDays \cup {None}, sentiment_score : Polarities]
YahooEvents == [Date : {today}, sentiment_score : Polarities]
Posts == [Date : EventDays, sentiment_score : {Frac(-1, 2), Frac(1, 20), Frac(1, 2)},
          score : {0, 2}]

\* two frames of events of E and F, of at most MaxEvents events together
FramePairs(E, F) ==
    UNION {{<<e, f>> : e \in [1..a -> E], f \in UNION {[1..b -> F] : b \in 0..(MaxEvents - a)}} :
             a \in 0..MaxEvents}

Called(op, value) == [op |-> op, value |-> value]

\* the scrape of the news sources (FinViz, Yahoo), or of two subreddits
InitAggregate ==
    /\ pc = "scraped"
    /\ stock_df = EmptyDataFrame
    /\ news_df = None
    /\ reddit_df = None
    /\ trends_raw = Unavailable
    /\ trends_df = None
    /\ df = None
    /\ feature_columns = <<>>
    /\ NoSplit
    /\ NoPredictor
    /\ NoMetrics
    /\ \/ \E frames \in FramePairs(FinvizEvents, YahooEvents) :
            scraped = [source |-> "news", frames |-> frames]
       \/ \E frames \in FramePairs(Posts, Posts) :
            scraped = [source |-> "reddit", frames |-> frames]
    /\ aggregated = None

Aggregate(source, op, value) ==
    /\ pc = "scraped"
    /\ scraped.source = source
    /\ pc' = "aggregated"
    /\ aggregated' = Called(op, value)
    /\ UNCHANGED <<fusionVars, splitVars, predictorVars, metricsVars, scraped>>

GetDailySentiment ==
    Aggregate("news", "get_daily_sentiment",
              get_daily_sentiment(scraped.frames[1], scraped.frames[2]))

GetAggregatedSentiment ==
    Aggregate("news", "get_aggregated_sentiment",
              get_aggregated_sentiment(scraped.frames[1], scraped.frames[2]))

GetDailyRedditSentiment ==
    Aggregate("reddit", "get_daily_reddit_sentiment", get_daily_reddit_sentiment(scraped.frames))

GetRedditSentiment ==
    Aggregate("reddit", "get_reddit_sentiment", get_reddit_sentiment(scraped.frames))

NextAggregate ==
    \/ GetDailySentiment
    \/ GetAggregatedSentiment
    \/ GetDailyRedditSentiment
    \/ GetRedditSentiment

SpecAggregate == InitAggregate /\ [][NextAggregate]_vars

-----------------------------------------------------------------------------
(* combine_all_features on any tables (SpecTables): the dates of a table    *)
(* may carry a time of day and a zone, and a signal table may hold a date   *)
(* twice or a date the price table does not have.                           *)

StampDays == 1..MaxStampDay
Tods == {0, 1}                 \* midnight, and one later time of the day
Zones == {"naive", "UTC"}
\* the timestamps of one zone: a 'Date' column has one dtype, so one zone
Stamps(z) == {[day |-> d, tod |-> t, tz |-> z] : d \in StampDays, t \in Tods}

\* a price table: one row per trading day, ascending, all at one time of day
StampedStock(S, tod) ==
    LET days == SortedSeq(S)
    IN  [columns |-> <<Date, close>>,
         rows |-> [i \in 1..Len(days) |->
                     (Date :> [day |-> days[i], tod |-> tod, tz |-> "naive"])
                         @@ (close :> Num(10 + days[i]))]]

StampedStocks == {StampedStock(S, tod) : S \in (SUBSET StampDays) \ {{}}, tod \in Tods}

\* the news row of a day with one headline, of polarity v/10
NewsRow(ts, v) ==
    (Date :> ts) @@ (avg_sentiment :> Frac(v, 10)) @@ (sentiment_std :> NaN)
        @@ (positive_ratio :> Num(1)) @@ (negative_ratio :> Num(0)) @@ (news_volume :> Num(1))

\* the reddit row of a day with one post, of polarity v/10 and score v
RedditRow(ts, v) ==
    (Date :> ts) @@ (reddit_avg_sentiment :> Frac(v, 10))
        @@ (reddit_weighted_sentiment :> Frac(v, 10)) @@ (reddit_volume :> Num(1))
        @@ (reddit_engagement :> Num(v)) @@ (reddit_positive_ratio :> Num(1))

\* a search-interest sample, of interest v/2
TrendsRow(ts, v) == (Date :> ts) @@ (search_interest :> Frac(v, 2))

\* the tables of one row and of two rows, the second with another value
NewsTable(rows) == [columns |-> <<Date>> \o NewsColumns, rows |-> rows]
RedditTable(rows) == [columns |-> <<Date>> \o RedditColumns, rows |-> rows]
TrendsTable(rows) == [columns |-> <<Date, search_interest>>, rows |-> rows]

AnyNewsTables ==
    UNION {{NewsTable(<<NewsRow(a, 1)>>) : a \in Stamps(z)}
             \cup {NewsTable(<<NewsRow(a, 1), NewsRow(b, 2)>>) : a \in Stamps(z), b \in Stamps(z)} :
           z \in Zones}

AnyRedditTables ==
    UNION {{RedditTable(<<RedditRow(a, 1)>>) : a \in Stamps(z)}
             \cup {RedditTable(<<RedditRow(a, 1), RedditRow(b, 2)>>) :
                      a \in Stamps(z), b \in Stamps(z)} :
           z \in Zones}

AnyTrendsTables ==
    UNION {{TrendsTable(<<TrendsRow(a, 2)>>) : a \in Stamps(z)}
             \cup {TrendsTable(<<TrendsRow(a, 1), TrendsRow(b, 2)>>) :
                      a \in Stamps(z), b \in Stamps(z)} :
           z \in Zones}

\* the tables are at hand, the search-interest table among them
InitTables ==
    /\ pc = "trends"
    /\ trends_raw = None
    /\ df = None
    /\ feature_columns = <<>>
    /\ NoSplit
    /\ NoPredictor
    /\ NoMetrics
    /\ NoAggregation
    /\ stock_df \in StampedStocks
    /\ \/ news_df \in AnyNewsTables /\ reddit_df = None /\ trends_df = None
       \/ news_df = None /\ reddit_df \in AnyRedditTables /\ trends_df = None
       \/ news_df = None /\ reddit_df = None /\ trends_df \in AnyTrendsTables

NextTables == CombineAllFeatures

SpecTables == InitTables /\ [][NextTables]_vars

-----------------------------------------------------------------------------
(* dashboard/app.py: make_prediction, with the technical indicators of      *)
(* data_scrapers/stock_scraper.py and the search trends of                  *)
(* data_scrapers/trends_scraper.py, which the dashboard imports             *)
(* (SpecDashboard).                                                         *)

SMA_5 == <<"SMA", "5">>
SMA_20 == <<"SMA", "20">>
RSI == <<"RSI">>
MACD == <<"MACD">>
Signal_Line == <<"Signal", "Line">>
Volatility == <<"Volatility">>
Price_Change == <<"Price", "Change">>

\* Series.diff()
diff(s) == [i \in 1..Len(s) |-> IF i = 1 THEN NaN ELSE FSub(s[i], s[i - 1])]

\* Series.pct_change()
pct_change(s) ==
    [i \in 1..Len(s) |-> IF i = 1 THEN NaN ELSE FDiv(FSub(s[i], s[i - 1]), s[i - 1])]

\* Series.ewm(span=span, adjust=False).mean(): y[1] = x[1] and
\* y[i] = (1 - a) y[i-1] + a x[i] with a = 2 / (span + 1)
RECURSIVE ewm_mean(_, _)
ewm_mean(s, span) ==
    IF Len(s) <= 1 THEN s
    ELSE LET front == ewm_mean(SubSeq(s, 1, Len(s) - 1), span)
         IN  Append(front, FDiv(FAdd(FMul(Num(span - 1), front[Len(front)]),
                                     FMul(Num(2), s[Len(s)])),
                                Num(span + 1)))

\* lines 55-59: 100 - 100 / (1 + gain / loss) over windows of 14 changes
rsi(closes) ==
    LET delta == diff(closes)
        up == [i \in 1..Len(delta) |->
                 IF ~isna(delta[i]) /\ FLess(Num(0), delta[i]) THEN delta[i] ELSE Num(0)]
        down == [i \in 1..Len(delta) |->
                   IF ~isna(delta[i]) /\ FLess(delta[i], Num(0))
                   THEN FSub(Num(0), delta[i]) ELSE Num(0)]
        gain == rolling_mean(up, 14)
        loss == rolling_mean(down, 14)
    IN  [i \in 1..Len(closes) |->
           IF isna(gain[i]) \/ isna(loss[i]) THEN NaN
           ELSE IF loss[i] = Num(0) THEN (IF gain[i] = Num(0) THEN NaN ELSE Num(100))
           ELSE FSub(Num(100), FDiv(Num(100), FAdd(Num(1), FDiv(gain[i], loss[i]))))]

\* StockScraper.calculate_technical_indicators: a KeyError on the table
\* without columns that a failed fetch returns
calculate_technical_indicators(t) ==
    IF close \notin Range(t.columns) THEN Raise("KeyError")
    ELSE LET closes == Column(t, close)
             macd == [i \in 1..Len(closes) |->
                        FSub(ewm_mean(closes, 12)[i], ewm_mean(closes, 26)[i])]
             t1 == SetColumn(t, SMA_5, rolling_mean(closes, 5))
             t2 == SetColumn(t1, SMA_20, rolling_mean(closes, 20))
             t3 == SetColumn(t2, RSI, rsi(closes))
             t4 == SetColumn(t3, MACD, macd)
             t5 == SetColumn(t4, Signal_Line, ewm_mean(macd, 9))
             t6 == SetColumn(t5, Volatility, rolling_std(closes, 20))
         IN  Return(SetColumn(t6, Price_Change, pct_change(closes)))

\* load_data_cached, given what fetch_historical_data returned
load_data_cached(fetched) == calculate_technical_indicators(fetched)

\* TrendsScraper.get_search_trends of trends_scraper.py: the three columns
\* Date, search_volume and search_interest
trends_scraper_get_search_trends(raw) ==
    IF raw = Unavailable THEN EmptyDataFrame
    ELSE IF empty(raw) THEN EmptyDataFrame
    ELSE SetColumn(raw, search_interest, normalize_interest(Column(raw, search_volume)))

\* fetch_live_sentiment, given the scraped frames: two dictionaries
fetch_live_sentiment(news_frames, reddit_frames) ==
    [sentiment |-> get_aggregated_sentiment(news_frames[1], news_frames[2]),
     reddit_sentiment |-> get_reddit_sentiment(reddit_frames)]

\* what make_prediction leaves behind when it stops before the fusion
Stopped(raised, value, self, live) ==
    [raised |-> raised, value |-> value, predictor |-> self,
     sentiment |-> live.sentiment, reddit_sentiment |-> live.reddit_sentiment,
     trends_df |-> None, combined_df |-> None, feature_columns |-> <<>>,
     latest_features |-> None]

NotFetched == [sentiment |-> None, reddit_sentiment |-> None]

\* lines 107-111: the prediction of the latest row and the last close
predict_latest(self, stock, live, after, prediction) ==
    IF prediction.raised # "" THEN [after EXCEPT !.raised = prediction.raised]
    ELSE [after EXCEPT !.value =
             [prediction |-> prediction.value.values[1],
              current_price |-> Column(stock, close)[Len(stock.rows)],
              sentiment |-> live.sentiment,
              reddit_sentiment |-> live.reddit_sentiment]]

\* lines 104-105: combined_df[engineer.feature_columns].iloc[-1:].fillna(0)
get_latest_features(self, stock, live, trends, combined, latest_features) ==
    predict_latest(self, stock, live,
                   [Stopped("", None, self, live) EXCEPT
                       !.trends_df = IF Given(trends) THEN NormalizeDate(trends) ELSE trends,
                       !.combined_df = combined.df,
                       !.feature_columns = combined.feature_columns,
                       !.latest_features = latest_features],
                   predict(self, latest_features))

\* lines 98-102: the fusion of the price table with the two dictionaries
engineer_features(self, stock, live, trends, combined) ==
    IF combined.raised # "" THEN Stopped(combined.raised, None, self, live)
    ELSE get_latest_features(self, stock, live, trends, combined,
             DataFrame_fillna0(iloc_from(Select(combined.df, combined.feature_columns), -1)))

\* lines 88-102: the search trends, then combine_all_features
get_trends(self, stock, live, trends) ==
    engineer_features(self, stock, live, trends,
                      combine_all_features(stock, live.sentiment, trends, live.reddit_sentiment))

\* lines 84-96: the price table, the live sentiment and the search trends
get_recent_data(self, stock, news_frames, reddit_frames, raw) ==
    IF stock.raised # "" THEN Stopped(stock.raised, None, self, NotFetched)
    ELSE get_trends(self, stock.value, fetch_live_sentiment(news_frames, reddit_frames),
                    trends_scraper_get_search_trends(raw))

\* lines 75-82: the model is loaded, or (None, None, None) is returned
load_trained_model(loaded, fetched, news_frames, reddit_frames, raw) ==
    IF loaded.raised # ""
    THEN Stopped("", [prediction |-> None, current_price |-> None, sentiment |-> None],
                 loaded.self, NotFetched)
    ELSE get_recent_data(loaded.self, load_data_cached(fetched), news_frames, reddit_frames, raw)

\* make_prediction(stock_name), given the model file, what the price source
\* returned, the scraped frames and what Google Trends returned
make_prediction(file, fetched, news_frames, reddit_frames, raw) ==
    load_trained_model(load_model(StockPredictor, file), fetched, news_frames, reddit_frames, raw)

DashboardDays == 1..MaxDashboardDay

\* what fetch_historical_data returns: a price table, or pd.DataFrame()
FetchedTables ==
    {StockTable(S, [d \in S |-> 10 + d]) : S \in (SUBSET DashboardDays) \ {{}}}
        \cup {EmptyDataFrame}

\* the file at config.MODEL_PATH: none, an unreadable one, the save of a new
\* predictor and the save of a trained one
ModelFiles ==
    {NoFile, Corrupt, save_model(StockPredictor),
     save_model(train(StockPredictor, Matrix(<<1, 3>>), Targets(<<10, 30>>), Stubs, "").self)}

\* the scrapes of a visit: no headline or one of Yahoo, no post or one of
\* today in the first subreddit
LiveNews == {<< <<>>, <<>> >>} \cup {<< <<>>, <<e>> >> : e \in YahooEvents}
LivePosts == {<< <<>>, <<>> >>} \cup {<< <<e>>, <<>> >> : e \in {p \in Posts : p.Date = today}}

InitDashboard ==
    /\ pc = "dashboard"
    /\ stock_df \in FetchedTables
    /\ trends_raw \in OneRow(TrendsRawTables) \cup {Unavailable}
    /\ disk \in ModelFiles
    /\ news_df = None
    /\ reddit_df = None
    /\ trends_df = None
    /\ df = None
    /\ feature_columns = <<>>
    /\ predictor = None
    /\ result = None
    /\ NoSplit
    /\ NoMetrics
    /\ NoAggregation

\* prediction, current_price, sentiment, reddit_sentiment = make_prediction(stock_name)
MakePrediction ==
    /\ pc = "dashboard"
    /\ \E news_frames \in LiveNews, reddit_frames \in LivePosts :
         LET out == make_prediction(disk, stock_df, news_frames, reddit_frames, trends_raw)
         IN  /\ predictor' = out.predictor
             /\ news_df' = out.sentiment
             /\ reddit_df' = out.reddit_sentiment
             /\ trends_df' = out.trends_df
             /\ df' = out.combined_df
             /\ feature_columns' = out.feature_columns
             /\ result' = Outcome("make_prediction", out.latest_features,
                                  [raised |-> out.raised, value |-> out.value])
    /\ pc' = "predicted"
    /\ UNCHANGED <<stock_df, trends_raw, disk, splitVars, metricsVars, aggVars>>

NextDashboard == MakePrediction

SpecDashboard == InitDashboard /\ [][NextDashboard]_vars

-----------------------------------------------------------------------------
(* Vocabulary of the properties of the fused table *)

TsLess(a, b) == a.day < b.day \/ (a.day = b.day /\ a.tod < b.tod)

DateOf(r) == tz_localize_None(to_datetime(r[Date]))

\* the rows of a table that satisfy Keep; None and Unavailable have no rows
RowsWhere(t, Keep(_)) ==
    IF t = None \/ t = Unavailable THEN t
    ELSE [columns |-> t.columns, rows |-> SelectSeq(t.rows, Keep)]

\* the records of a table dated strictly before D, and those dated D or earlier
Before(t, D) == RowsWhere(t, LAMBDA r : TsLess(DateOf(r), D))
UpTo(t, D) == RowsWhere(t, LAMBDA r : ~TsLess(D, DateOf(r)))

RowsOf(t) == IF HasRows(t) THEN Range(t.rows) ELSE {}

\* the row of table t dated D
RowAt(t, D) == CHOOSE r \in Range(t.rows) : r[Date] = D
HasRowAt(t, D) == \E r \in Range(t.rows) : r[Date] = D

Fused == pc = "fused"
FusedRows == IF Fused THEN Range(df.rows) ELSE {}

\* the news and reddit columns that combine_all_features lagged
LaggedBase ==
    {c \in Range(NewsColumns) \cup Range(RedditColumns) : LagName(c, 1) \in Range(df.columns)}

\* the signal table a base column comes from
SignalOf(c) == IF c \in Range(NewsColumns) THEN news_df ELSE reddit_df

-----------------------------------------------------------------------------
(* C1: lagged columns carry no signal dated D or later.                     *)

\* the run on the same price table and search interest whose news and reddit
\* tables hold only the rows dated strictly before D
RunWithSignalsBefore(D) ==
    combine_all_features(stock_df, Before(news_df, D), trends_df, Before(reddit_df, D)).df

\* C1: for every fused row at date D and every k in 1..3, each <col>_lag_k
\* value is the same as in the run whose news and reddit tables have lost
\* every row dated D or later (it depends only on signal rows dated strictly
\* before D), and it is either the fill 0 or the value the column has in a
\* signal row dated strictly before D; a value planted only at later dates is
\* in no lag column of the row.
C1_LagsUseOnlyThePast ==
    Fused =>
        \A r \in FusedRows :
            LET other == RowAt(RunWithSignalsBefore(r[Date]), r[Date])
            IN  \A c \in LaggedBase : \A k \in Range(Lags) :
                    /\ r[LagName(c, k)] = other[LagName(c, k)]
                    /\ \/ r[LagName(c, k)] = Num(0)
                       \/ \E q \in RowsOf(SignalOf(c)) :
                            TsLess(DateOf(q), r[Date]) /\ q[c] = r[LagName(c, k)]

\* a fused row whose lag_1 column carries a signal value, while the same
\* column has another value in a signal row dated later than the fused row
C1_Witness ==
    /\ Fused
    /\ \E r \in FusedRows : \E c \in LaggedBase :
        /\ r[LagName(c, 1)] # Num(0)
        /\ \E q \in RowsOf(SignalOf(c)) :
              TsLess(r[Date], DateOf(q)) /\ q[c] # r[LagName(c, 1)] /\ ~isna(q[c])

-----------------------------------------------------------------------------
(* C2: the target is the next trading day's close; the last day is dropped. *)

\* C2: for a price table of N rows in ascending date order, the fused table
\* has the rows of the first N - 1 price dates, row i has target equal to the
\* close of price row i + 1, and no fused row has the last price date.
C2_TargetIsNextClose ==
    Fused =>
        LET N == Len(stock_df.rows)
        IN  /\ Len(df.rows) = IF N = 0 THEN 0 ELSE N - 1
            /\ \A i \in 1..Len(df.rows) :
                /\ df.rows[i][Date] = DateOf(stock_df.rows[i])
                /\ df.rows[i][target] = stock_df.rows[i + 1][close]
            /\ N > 0 => ~HasRowAt(df, DateOf(stock_df.rows[N]))

\* a fused table of two rows or more whose target differs from its own close
C2_Witness ==
    /\ Fused
    /\ Len(df.rows) >= 2
    /\ \E i \in 1..Len(df.rows) : df.rows[i][target] # df.rows[i][close]

-----------------------------------------------------------------------------
(* C3: no column but the target depends on records dated after the row.     *)

\* a price row of the day after the last calendar day
LaterPriceRow == (Date :> Timestamp(MaxDate + 1)) @@ (close :> Num(0))

\* a second run that agrees with this one on every record dated D or
\* earlier: the price rows up to D followed by one later trading day, and
\* the news, reddit and search-interest samples dated D or earlier
RunAgreeingUpTo(D) ==
    LET past == UpTo(stock_df, D)
    IN  combine_all_features(
            [columns |-> past.columns, rows |-> Append(past.rows, LaterPriceRow)],
            UpTo(news_df, D),
            get_search_trends(UpTo(trends_raw, D)),
            UpTo(reddit_df, D)).df

\* C3: for every fused row at date D, every column other than the target has
\* the value it has in the row at D of a run whose inputs agree with this
\* run's on all records dated D or earlier.
C3_NoColumnSeesTheFuture ==
    Fused =>
        \A r \in FusedRows :
            LET other == RowAt(RunAgreeingUpTo(r[Date]), r[Date])
            IN  \A c \in Range(feature_columns) : r[c] = other[c]

\* the same for every column but search_interest
C3_OnlySearchInterestLeaks ==
    Fused =>
        \A r \in FusedRows :
            LET other == RowAt(RunAgreeingUpTo(r[Date]), r[Date])
            IN  \A c \in Range(feature_columns) \ {search_interest} : r[c] = other[c]

-----------------------------------------------------------------------------
(* C4: zero-fill of the news and reddit columns.                            *)

\* the columns a signal table contributes to the fused table
Contributed(t, defaults) ==
    IF Given(t) THEN Range(t.columns) \ {Date} ELSE Range(defaults)

ZeroFilled(t, defaults) ==
    /\ Contributed(t, defaults) \subseteq Range(df.columns)
    /\ \A r \in FusedRows :
        (\A q \in RowsOf(t) : DateOf(q) # r[Date]) =>
            \A c \in Contributed(t, defaults) : r[c] = Num(0)

\* C4: every fused row whose date has no row in the news (reddit) table has 0
\* in every column that table contributes, also when the table is None or
\* empty; and no run fails for want of a signal table.
C4_ZeroFill ==
    /\ Fused => ZeroFilled(news_df, NewsColumns) /\ ZeroFilled(reddit_df, RedditColumns)
    /\ pc = "error" => Date \notin Range(stock_df.columns)

\* a fused row without news whose previous fused row has news
C4_Witness ==
    /\ Fused
    /\ \E i \in 2..Len(df.rows) :
        /\ \A q \in RowsOf(news_df) : DateOf(q) # df.rows[i][Date]
        /\ df.rows[i - 1][avg_sentiment] # Num(0)
        /\ df.rows[i][avg_sentiment] = Num(0)

-----------------------------------------------------------------------------
(* C5: forward-fill, then zero-fill, of search_interest.                    *)

TradingDates == {DateOf(q) : q \in RowsOf(stock_df)}

\* the search-interest samples that fall on a trading date
TradingSamples == {q \in RowsOf(trends_df) : DateOf(q) \in TradingDates}

\* the samples on trading dates not later than D
SamplesUpTo(D) == {q \in TradingSamples : ~TsLess(D, DateOf(q))}

Latest(S) == CHOOSE q \in S : \A p \in S : ~TsLess(DateOf(q), DateOf(p))

\* forward-fill: a fused row later than the last sample on a trading date
\* carries that sample's value
CarriedForward ==
    \A r \in FusedRows :
        (TradingSamples # {} /\ TsLess(DateOf(Latest(TradingSamples)), r[Date])) =>
            r[search_interest] = Latest(TradingSamples)[search_interest]

\* C5 as claimed: forward-fill, and search_interest is 0 only on trading
\* dates that precede the first sample falling on a trading date.
C5_ZeroOnlyBeforeFirstSample ==
    Fused =>
        /\ CarriedForward
        /\ \A r \in FusedRows : r[search_interest] = Num(0) => SamplesUpTo(r[Date]) = {}

\* C5 as amended: a fused row dated before the first sample that falls on a
\* trading date has the fill 0, and every other fused row carries the value
\* of the latest sample on a trading date up to its own, whatever that value
\* is (a sample of 0 is carried forward as 0).
C5_ForwardFillThenZero ==
    Fused =>
        \A r \in FusedRows :
            r[search_interest] =
                IF SamplesUpTo(r[Date]) = {} THEN Num(0)
                ELSE Latest(SamplesUpTo(r[Date]))[search_interest]

\* a fused row that has no sample on its date and carries the value, not 0,
\* of an earlier sample
C5_Witness ==
    /\ Fused
    /\ \E r \in FusedRows :
        /\ \A q \in TradingSamples : DateOf(q) # r[Date]
        /\ SamplesUpTo(r[Date]) # {}
        /\ r[search_interest] # Num(0)

-----------------------------------------------------------------------------
(* C6, C7, C8: the chronological split (under SpecSplit).                   *)

SplitDone == pc = "split"

\* t is in the open interval (0, 1)
InOpenUnit(t) == FLess(Num(0), t) /\ FLess(t, Num(1))

\* C6: for a fused table of N rows and a test fraction t in (0, 1), the split
\* has exactly floor(N * (1 - t)) train rows and N minus that many test rows,
\* X_train and y_train have the length of the train partition, X_test and
\* y_test that of the test partition, and test_df is the test partition.
C6_SplitSizes ==
    (SplitDone /\ InOpenUnit(test_fraction)) =>
        LET N == Len(df.rows)
            k == (N * (test_fraction.d - test_fraction.n)) \div test_fraction.d
        IN  /\ Len(split.train_df.rows) = k
            /\ Len(split.X_train.rows) = k
            /\ Len(split.y_train.values) = k
            /\ Len(split.X_test.rows) = N - k
            /\ Len(split.y_test.values) = N - k
            /\ split.test_df.rows = SubSeq(df.rows, k + 1, N)

\* C7: the train rows followed by the test rows are the rows of the fused
\* table in their order (a prefix and the remaining suffix, every row in
\* exactly one part, nothing shuffled), the features and targets returned
\* are those of the two parts, and every train date is strictly earlier than
\* every test date.
C7_ChronologicalPartition ==
    SplitDone =>
        /\ split.train_df.rows \o split.test_df.rows = df.rows
        /\ \A r \in Range(df.rows) :
              (r \in Range(split.train_df.rows)) # (r \in Range(split.test_df.rows))
        /\ split.X_train.rows \o split.X_test.rows = Select(df, feature_columns).rows \o <<>>
        /\ split.y_train.values \o split.y_test.values = Column(df, target)
        /\ \A r \in Range(split.train_df.rows), q \in Range(split.test_df.rows) :
              TsLess(r[Date], q[Date])

\* a split with at least two rows on each side
C7_Witness ==
    /\ SplitDone
    /\ Len(split.train_df.rows) >= 2
    /\ Len(split.test_df.rows) >= 2

\* C8: a call with a test_size outside the open interval (0, 1) ends in an
\* error and returns no split.
C8_InvalidTestSizeRejected ==
    (pc \in {"split", "error"} /\ ~InOpenUnit(test_fraction)) =>
        (pc = "error" /\ split.raised # "")

-----------------------------------------------------------------------------
(* C9, C10: the predictor (under SpecPredictor).                            *)

\* C9: a predict or an evaluate on a predictor whose is_trained is false
\* raises the ValueError of the is_trained check, returns no value, and
\* leaves every field of the predictor, and the model file, as they were.
C9_UntrainedCallsRaise ==
    [][ (~predictor.is_trained /\ result'.op \in {"predict", "evaluate"}) =>
            /\ result'.raised = "ValueError"
            /\ result'.value = None
            /\ predictor' = predictor
            /\ disk' = disk ]_vars

\* an evaluate has raised on a predictor that is not trained
C9_Witness ==
    /\ pc = "model"
    /\ ~predictor.is_trained
    /\ result.op = "evaluate"
    /\ result.raised = "ValueError"

\* the product w * p[i] of a weight and a component's prediction, in the
\* dtype of the component's array
WeightedAt(w, p, i) ==
    FloatMul(p.dtype, RoundTo(p.dtype, w.sign, w.man, w.exp, FALSE), p.values[i])

\* C10: a predict that returns has, for every input row, the value
\* 0.3 * p_rf + 0.3 * p_gb + 0.4 * p_xgb of the three components'
\* predictions for the row, in float arithmetic; for the predictions of
\* this model that sum is exact, ten times the value being
\* 3 p_rf + 3 p_gb + 4 p_xgb; and with components that return 10, 20 and 30
\* the value is 21.0 on every row.
C10_EnsembleWeighting ==
    (pc = "model" /\ result.op = "predict" /\ result.raised = "") =>
        LET X_scaled == scaler_transform(predictor.scaler, result.X).value
            p == [name \in Range(ModelNames) |->
                    model_predict(predictor.models[name], X_scaled)]
            w == [rf |-> PyFloat(Frac(3, 10)), gb |-> PyFloat(Frac(3, 10)),
                  xgb |-> PyFloat(Frac(4, 10))]
            out == result.value.values
        IN  /\ predictor.weights = w
            /\ Len(out) = Len(result.X.rows)
            /\ \A i \in 1..Len(out) :
                /\ out[i] = FloatAdd(float64,
                                FloatAdd(float64, WeightedAt(w.rf, p.rf, i),
                                                  WeightedAt(w.gb, p.gb, i)),
                                WeightedAt(w.xgb, p.xgb, i))
                /\ FMul(Num(10), FloatToCell(out[i])) =
                      FAdd(FAdd(FMul(Num(3), FloatToCell(p.rf.values[i])),
                                FMul(Num(3), FloatToCell(p.gb.values[i]))),
                           FMul(Num(4), FloatToCell(p.xgb.values[i])))
                /\ predictor.models = Stubs => out[i] = IntToFloat(21)

\* a predict on two rows by a predictor whose components return 10, 20, 30
C10_Witness ==
    /\ pc = "model"
    /\ result.op = "predict"
    /\ result.raised = ""
    /\ predictor.models = Stubs
    /\ Len(result.value.values) >= 2

-----------------------------------------------------------------------------
(* C11: the scaler and the purity of predict (under SpecPredictor).         *)

\* the scalers that train fits on the training matrices
TrainFitted == {scaler_fit(t.X) : t \in {u \in Trainings : Len(u.X.rows) > 0}}

\* C11: a fitted scaler always has the parameters that a train computed
\* from its training matrix (a load_model brings back a saved one), no step
\* but a construction, a train or a load_model changes the scaler, a predict
\* or an evaluate changes no field of the predictor, and the predict just
\* made, repeated on the state it left with the same input, has the same
\* outcome.
C11_PredictIsPure ==
    [][ /\ predictor'.scaler.fitted => predictor'.scaler \in TrainFitted
        /\ predictor'.scaler # predictor.scaler =>
               result'.op \in {"init", "train", "load_model"}
        /\ result'.op \in {"predict", "evaluate"} => predictor' = predictor
        /\ result'.op = "predict" =>
               LET again == predict(predictor', result'.X)
               IN  /\ again.raised = result'.raised
                   /\ again.value = result'.value ]_vars

\* a trained predictor has predicted for a matrix that it was not trained on
C11_Witness ==
    /\ pc = "model"
    /\ predictor.is_trained
    /\ result.op = "predict"
    /\ result.raised = ""
    /\ result.X # predictor.X_train
    /\ scaler_fit(result.X) # predictor.scaler

-----------------------------------------------------------------------------
(* C12, C13: directional accuracy (under SpecMetrics).                      *)

Measured == pc = "measured"

\* the boundary example: actual = [1,2,1], predicted = [1,3,0]
BoundaryExample ==
    /\ actual = Targets(<<1, 2, 1>>)
    /\ predicted = Targets(<<1, 3, 0>>)

\* C12 as stated: on actual = [1,2,1] and predicted = [1,3,0] the reported
\* directional accuracy is 50.
C12_BoundaryIsFifty ==
    (Measured /\ BoundaryExample) => metrics.direction_accuracy = Num(50)

\* C12, amended: on actual = [1,2,1] and predicted = [1,3,0] the reported
\* directional accuracy is 100: the actual series rises then falls, and so
\* does the predicted one, on both of the 2 transitions.
C12_BoundaryIsHundred ==
    (Measured /\ BoundaryExample) => metrics.direction_accuracy = Num(100)

\* _compute_metrics has run on the boundary example
C12_Witness == Measured /\ BoundaryExample

\* the sign of the change from row i to row i + 1
SignOfChange(s, i) ==
    IF FLess(s[i], s[i + 1]) THEN 1 ELSE IF FLess(s[i + 1], s[i]) THEN -1 ELSE 0

\* C13: for two series of at least 2 rows the reported directional accuracy
\* is 100 times the number of transitions where the sign (negative, zero or
\* positive) of the actual change equals that of the predicted change,
\* divided by the number of transitions.
C13_SignAgreement ==
    (Measured /\ Len(actual.values) >= 2) =>
        LET n == Len(actual.values)
            agreeing == {i \in 1..(n - 1) :
                           SignOfChange(actual.values, i) = SignOfChange(predicted.values, i)}
        IN  metrics.direction_accuracy = Frac(100 * Cardinality(agreeing), n - 1)

-----------------------------------------------------------------------------
(* C14: a zero among the actual values of evaluate (under SpecPredictor).   *)

\* the targets that evaluate was given along with the matrix X
TestTargets(X) == (CHOOSE t \in TestSets : t.X = X).y

HasZero(series) == \E i \in DOMAIN series.values : series.values[i] = Num(0)

\* C14: an evaluate on a trained predictor whose y_test, or whose retained
\* training targets, contain a zero ends in an error and returns no metrics.
C14_ZeroActualRaises ==
    ( /\ pc = "model"
      /\ result.op = "evaluate"
      /\ predictor.is_trained
      /\ HasZero(TestTargets(result.X)) \/ HasZero(predictor.y_train) ) =>
        (result.raised # "" /\ result.value = None)

-----------------------------------------------------------------------------
(* C15, C16: save_model and load_model (under SpecStorage).                 *)

\* the four fields that a save writes and a load reads
Persistent(self) == [k \in Range(BlobKeys) |-> self[k]]

SamePredictions(a, b) == \A X \in PredictInputs : predict(a, X) = predict(b, X)

\* C15: when a trained predictor A is saved, a new predictor B that loads
\* the file has A's models, scaler, weights and is_trained, and predicts for
\* every input what A predicts; and every load_model that returns has put
\* the four entries of the file into the predictor, which then predicts as
\* such a B.
C15_SaveLoadRoundTrip ==
    [][ /\ (result'.op = "save_model" /\ predictor.is_trained) =>
               LET B == load_model(StockPredictor, disk')
               IN  /\ B.raised = ""
                   /\ Persistent(B.self) = Persistent(predictor)
                   /\ SamePredictions(B.self, predictor)
        /\ (result'.op = "load_model" /\ result'.raised = "") =>
               /\ Persistent(predictor') = Persistent(disk)
               /\ SamePredictions(predictor', load_model(StockPredictor, disk).self) ]_vars

\* a new predictor has loaded the file of a trained one: it is trained and
\* predicts values, and has no training data of its own
C15_Witness ==
    /\ pc = "model"
    /\ result.op = "load_model"
    /\ result.raised = ""
    /\ predictor.is_trained
    /\ predictor.X_train = Unset
    /\ \E X \in PredictInputs : predict(predictor, X).raised = ""

\* C16: a load_model that raises leaves the models, the scaler, the weights
\* and is_trained of the predictor as they were.
C16_FailedLoadChangesNothing ==
    [][ (result'.op = "load_model" /\ result'.raised # "") =>
            Persistent(predictor') = Persistent(predictor) ]_vars

-----------------------------------------------------------------------------
(* C17: the empty price table (under Spec).                                 *)

\* C17: combine_all_features on a price table without rows, whether it has
\* the Date and close columns or no column at all, ends in an error and
\* returns no fused table.
C17_EmptyPriceTableFails ==
    (pc \in {"fused", "error"} /\ Len(stock_df.rows) = 0) =>
        (pc = "error" /\ df = None)

-----------------------------------------------------------------------------
(* C18, C19, C20: the aggregators (under SpecAggregate).                    *)

\* every event that was scraped, and the positions of those of one date
Collected == Concat(scraped.frames)
At(date) == {i \in DOMAIN Collected : Collected[i].Date = date}
DistinctDates == {Collected[i].Date : i \in DOMAIN Collected} \ {None}

AggregatedBy(op) == pc = "aggregated" /\ aggregated.op = op

\* the rows of the returned table that carry the date
RowsFor(date) ==
    {i \in DOMAIN aggregated.value.rows : aggregated.value.rows[i][Date] = date}

\* the sum of the polarities of the events at the positions I
RECURSIVE PolaritySum(_)
PolaritySum(I) ==
    IF I = {} THEN Num(0)
    ELSE LET i == CHOOSE j \in I : TRUE
         IN  FAdd(Collected[i].sentiment_score, PolaritySum(I \ {i}))

\* the sum of polarity * score, and of the scores, of the posts at I
RECURSIVE PolarityTimesScoreSum(_)
PolarityTimesScoreSum(I) ==
    IF I = {} THEN Num(0)
    ELSE LET i == CHOOSE j \in I : TRUE
         IN  FAdd(FMul(Collected[i].sentiment_score, Num(Collected[i].score)),
                  PolarityTimesScoreSum(I \ {i}))

RECURSIVE TotalScore(_)
TotalScore(I) ==
    IF I = {} THEN 0
    ELSE LET i == CHOOSE j \in I : TRUE IN Collected[i].score + TotalScore(I \ {i})

\* C18: when at least one scraped headline has a date, get_daily_sentiment
\* returns exactly one row for each distinct date and no other row; in the
\* row of a date, avg_sentiment is the sum of that date's polarities divided
\* by their number, news_volume is that number, positive_ratio is the
\* fraction of them strictly above 0.05 and negative_ratio the fraction
\* strictly below -0.05; the headlines without a date are in no row.
C18_DailyAggregation ==
    (AggregatedBy("get_daily_sentiment") /\ DistinctDates # {}) =>
        /\ Len(aggregated.value.rows) = Cardinality(DistinctDates)
        /\ \A i \in DOMAIN aggregated.value.rows :
              aggregated.value.rows[i][Date] \in DistinctDates
        /\ \A date \in DistinctDates :
              /\ Cardinality(RowsFor(date)) = 1
              /\ LET row == aggregated.value.rows[CHOOSE i \in RowsFor(date) : TRUE]
                     n == Cardinality(At(date))
                 IN  /\ row[avg_sentiment] = FDiv(PolaritySum(At(date)), Num(n))
                     /\ row[news_volume] = Num(n)
                     /\ row[positive_ratio] =
                           Frac(Cardinality({i \in At(date) :
                                   FLess(Frac(1, 20), Collected[i].sentiment_score)}), n)
                     /\ row[negative_ratio] =
                           Frac(Cardinality({i \in At(date) :
                                   FLess(Collected[i].sentiment_score, Frac(-1, 20))}), n)

\* headlines of two dates and one without a date have been aggregated
C18_Witness ==
    /\ AggregatedBy("get_daily_sentiment")
    /\ Cardinality(DistinctDates) = 2
    /\ At(None) # {}
    /\ Len(aggregated.value.rows) = 2

\* C19: in the row of every date, reddit_weighted_sentiment is
\* sum(polarity * score) / sum(score) over that date's posts when the sum of
\* the scores is not zero, and the mean polarity of that date's posts when
\* it is zero.
C19_WeightedSentiment ==
    AggregatedBy("get_daily_reddit_sentiment") =>
        \A date \in DistinctDates :
            \A i \in RowsFor(date) :
                aggregated.value.rows[i][reddit_weighted_sentiment] =
                    IF TotalScore(At(date)) # 0
                    THEN FDiv(PolarityTimesScoreSum(At(date)), Num(TotalScore(At(date))))
                    ELSE FDiv(PolaritySum(At(date)), Num(Cardinality(At(date))))

\* a result that a caller finds empty: a table without rows or columns, a
\* dictionary without entries
IsEmptyResult(value) ==
    IF "items" \in DOMAIN value THEN DOMAIN value.items = {} ELSE empty(value)

\* C20: when no event was collected, the aggregator that was called returns
\* an empty result, not a record of zeros.
C20_EmptyInputEmptyResult ==
    (pc = "aggregated" /\ Len(Collected) = 0) => IsEmptyResult(aggregated.value)

-----------------------------------------------------------------------------
(* C21: a lag column holds the value of its column k rows earlier.          *)

\* the columns of the fused table whose name contains 'sentiment', 'reddit'
\* or 'news' and that are not lag columns themselves
SentimentNamed ==
    {c \in Range(df.columns) :
        (\E pat \in SentimentPatterns : Contains(c, pat)) /\ ~Contains(c, "lag")}

\* C21: for every column c whose name contains 'sentiment', 'reddit' or
\* 'news' and every k in 1..3, the fused table has the column c_lag_k, and
\* its value in the row at position i is the value of c in the row at
\* position i - k when i > k, and 0 in the first k rows.
C21_LagIsValueKRowsEarlier ==
    Fused =>
        \A c \in SentimentNamed : \A k \in Range(Lags) :
            /\ LagName(c, k) \in Range(df.columns)
            /\ \A i \in 1..Len(df.rows) :
                df.rows[i][LagName(c, k)] = IF i > k THEN df.rows[i - k][c] ELSE Num(0)

\* a fused row whose lag_2 value is a signal value two rows earlier that
\* differs from the value one row earlier, and whose first rows have lag 0
C21_Witness ==
    /\ Fused
    /\ \E c \in SentimentNamed : \E i \in 3..Len(df.rows) :
        /\ df.rows[i][LagName(c, 2)] # Num(0)
        /\ df.rows[i][LagName(c, 2)] = df.rows[i - 2][c]
        /\ df.rows[i - 1][c] # df.rows[i - 2][c]
        /\ df.rows[1][LagName(c, 2)] = Num(0)

-----------------------------------------------------------------------------
(* C22, C26: the fusion of tables whose dates carry a time of day or        *)
(* repeat (under SpecTables).                                               *)

\* the signal tables that were given, and the columns each contributes
GivenSignals == {t \in {news_df, reddit_df, trends_df} : Given(t)}

\* the value a signal cell has in the fused table
Filled(v) == IF isna(v) THEN Num(0) ELSE v

\* the fused row at position i carries the values of the signal row q
Carries(i, t, q) ==
    \A c \in Range(t.columns) \ {Date} : df.rows[i][c] = Filled(q[c])

\* C22: every date of the fused table is a plain calendar date (midnight,
\* no zone), and a price row that has a fused row and a signal row on the
\* same calendar day are joined: a fused row of that day carries the signal
\* row's values, also when the two timestamps differ in time of day or zone.
C22_SameCalendarDayJoined ==
    Fused =>
        /\ \A i \in 1..Len(df.rows) : df.rows[i][Date].tod = 0 /\ df.rows[i][Date].tz = "naive"
        /\ \A t \in GivenSignals : \A q \in Range(t.rows) :
            (\E i \in 1..Len(df.rows) : df.rows[i][Date].day = q[Date].day) =>
                \E i \in 1..Len(df.rows) :
                    df.rows[i][Date].day = q[Date].day /\ Carries(i, t, q)

-----------------------------------------------------------------------------
(* C23: the declared feature set and the same-day sentiment columns.        *)

\* C23: after combine_all_features, for every column c whose name contains
\* 'sentiment', 'reddit' or 'news', feature_columns holds c_lag_1, c_lag_2
\* and c_lag_3 but not c itself, and c is a column of the returned table.
C23_NoSameDaySentimentInFeatures ==
    Fused =>
        \A c \in SentimentNamed :
            /\ \A k \in Range(Lags) : LagName(c, k) \in Range(feature_columns)
            /\ c \in Range(df.columns)
            /\ c \notin Range(feature_columns)

-----------------------------------------------------------------------------
(* C24: evaluate in every trained state (under SpecPredictor).              *)

\* C24: in every state reached by train, save_model and load_model in which
\* is_trained is true, the training features and targets that evaluate reads
\* are present, and evaluate on a test set with rows returns its metrics.
C24_EvaluateUsableWhenTrained ==
    (pc = "model" /\ predictor.is_trained) =>
        /\ predictor.X_train # Unset
        /\ predictor.y_train # None
        /\ \A t \in TestSets :
            Len(t.X.rows) > 0 => evaluate(predictor, t.X, t.y).raised = ""

-----------------------------------------------------------------------------
(* C25: the trained state when a train call aborts (under SpecPredictor).   *)

\* the scaler, the components and the retained data all come from t
TrainedFrom(self, t) ==
    /\ self.scaler = scaler_fit(t.X)
    /\ self.models = t.learned
    /\ self.X_train = t.X
    /\ self.y_train = t.y

\* C25: whenever is_trained is true after a train call, the scaler, the
\* three components and the retained training data all come from the
\* training set of the most recent train call that completed: a call that
\* completes leaves them all from its own training set, and a call that
\* aborts leaves every one of them as it was.
C25_TrainedStateFromOneTrainingSet ==
    [][(result'.op = "train" /\ predictor'.is_trained) =>
          IF result'.raised = ""
          THEN \E t \in Trainings : TrainedFrom(predictor', t)
          ELSE /\ predictor'.scaler = predictor.scaler
               /\ predictor'.models = predictor.models
               /\ predictor'.X_train = predictor.X_train
               /\ predictor'.y_train = predictor.y_train]_vars

-----------------------------------------------------------------------------
(* C26: one fused row per trading date (under SpecTables).                  *)

\* C26: for a price table of N >= 1 distinct ascending dates and any news,
\* reddit and search-interest tables, whose dates may lie outside the price
\* dates and may repeat, the fused table has exactly N - 1 rows, row i is
\* of the i-th price date, no date is repeated, and the target of row i is
\* the close of price row i + 1.
C26_OneRowPerTradingDate ==
    Fused =>
        LET N == Len(stock_df.rows)
        IN  /\ Len(df.rows) = N - 1
            /\ \A i \in 1..Len(df.rows) : \A j \in 1..Len(df.rows) :
                 i # j => df.rows[i][Date] # df.rows[j][Date]
            /\ \A i \in 1..Len(df.rows) :
                /\ df.rows[i][Date] = DateOf(stock_df.rows[i])
                /\ df.rows[i][target] = stock_df.rows[i + 1][close]

-----------------------------------------------------------------------------
(* C27: the lag columns of the news and reddit summary columns.             *)

\* the summary columns that the news and reddit tables contribute
SummaryColumns ==
    Contributed(news_df, NewsColumns) \cup Contributed(reddit_df, RedditColumns)

\* C27: every summary column that the news and reddit tables contribute to
\* the fused table (avg_sentiment, sentiment_std, positive_ratio,
\* negative_ratio, news_volume and the reddit_* columns) has its lag_1,
\* lag_2 and lag_3 variants in the fused table and in feature_columns.
C27_LagCoverage ==
    Fused =>
        \A c \in SummaryColumns : \A k \in Range(Lags) :
            /\ LagName(c, k) \in Range(df.columns)
            /\ LagName(c, k) \in Range(feature_columns)

\* the same for the summary columns but positive_ratio and negative_ratio
C27_AllButTheNewsRatios ==
    Fused =>
        \A c \in SummaryColumns \ {positive_ratio, negative_ratio} : \A k \in Range(Lags) :
            /\ LagName(c, k) \in Range(df.columns)
            /\ LagName(c, k) \in Range(feature_columns)

-----------------------------------------------------------------------------
(* C28: search interest across days without trading.                        *)

\* the search-interest samples dated D or earlier, on a trading date or not
AllSamplesUpTo(D) == {q \in RowsOf(trends_df) : ~TsLess(D, DateOf(q))}

\* a fused row carries the most recent sample dated on or before its date
CarriesMostRecentSample(r) ==
    AllSamplesUpTo(r[Date]) # {} =>
        r[search_interest] = Latest(AllSamplesUpTo(r[Date]))[search_interest]

\* C28: for every trading date D of the fused table, search_interest is the
\* value of the most recent search-interest sample dated on or before D,
\* samples dated on days that are not in the price table included, and it
\* is 0 only when no sample is dated on or before D.
C28_SearchInterestPersists ==
    Fused =>
        \A r \in FusedRows :
            /\ CarriesMostRecentSample(r)
            /\ r[search_interest] = Num(0) => AllSamplesUpTo(r[Date]) = {}

\* the carrying alone, whatever the value carried
C28_MostRecentSampleCarried ==
    Fused => \A r \in FusedRows : CarriesMostRecentSample(r)

-----------------------------------------------------------------------------
(* C29: the row that the dashboard predicts from (under SpecDashboard).     *)

\* make_prediction ran with a trained model on file and two or more days
PredictionAsked ==
    /\ pc = "predicted"
    /\ load_model(StockPredictor, disk).raised = ""
    /\ predictor.is_trained
    /\ Len(stock_df.rows) >= 2

LastTradingDay == DateOf(stock_df.rows[Len(stock_df.rows)])

\* C29: make_prediction returns a prediction; the row it hands to the
\* predictor is the feature row of the most recent trading day of the price
\* table, the day whose close it returns as current_price, so the prediction
\* is for the trading day after the latest known close.
C29_InferenceRowIsLatestDay ==
    PredictionAsked =>
        /\ result.raised = ""
        /\ result.value.current_price = stock_df.rows[Len(stock_df.rows)][close]
        /\ df.rows[Len(df.rows)][Date] = LastTradingDay
        /\ Len(result.X.rows) = 1
        /\ \A c \in Range(feature_columns) : result.X.rows[1][c] = df.rows[Len(df.rows)][c]

\* the fused table that combine_all_features returns ends on the most
\* recent trading day (under Spec)
C29_FusedTableEndsOnLastTradingDay ==
    (Fused /\ Len(stock_df.rows) >= 2) => df.rows[Len(df.rows)][Date] = LastTradingDay

====
